---- MODULE Spec2Model ----
(***************************************************************************)
(* Economic Decision Advisor backend: the tools of tools/fred.py,          *)
(* tools/exchange.py and tools/news.py with their fetches, and the chat    *)
(* gateway (EconomicAdvisorAgent, get_agent) over the external agent       *)
(* runtime, alone, under the route handlers of api/routes.py, and with     *)
(* get_or_create_agent interleaved between server processes.               *)
(*                                                                         *)
(* Numbers.  The tools compute in floating point and print with a fixed    *)
(* number of decimals.  A computed quotient is kept here as the exact      *)
(* rational [num, den]; "%.Nf" is RoundHalfEven of the scaled rational.    *)
(* Text.  A returned text block is the sequence of its lines, in the order *)
(* the code appends them; a line is the record of what is formatted into   *)
(* it (Line).                                                              *)
(***************************************************************************)
EXTENDS Integers, Sequences, FiniteSets, TLC

VARIABLES
    tool_in,            \* arguments and network outcome of the tool call under way
    tool_out,           \* what the tool returned (NoOut before it returns)
    now,                \* datetime.now(), in ticks of the clock
    prev_out,           \* what the previous call with the same arguments returned
    agents,             \* the agent runtime's store: the sequence of agents created
    agent_id_,          \* EconomicAdvisorAgent._agent_id
    tools_registered_,  \* EconomicAdvisorAgent._tools_registered
    used,               \* the user_ids a gateway operation has been called for
    ret,                \* the last gateway operation: its arguments and its result
    requests,           \* the HTTP requests the tools have sent to providers
    agent_instance_,    \* manager._agent_instance, the process-wide gateway
    instances,          \* the EconomicAdvisorAgent objects constructed so far
    workers,            \* the server processes: where each is in get_or_create_agent
    http_response       \* the HTTP response to the last request

vars == <<tool_in, tool_out, now, prev_out, agents, agent_id_, tools_registered_, used,
          ret, requests, agent_instance_, instances, workers, http_response>>

None == "None"

\* tool_out before the tool has returned.
NoOut == [kind |-> "none", lines |-> <<>>]

----------------------------------------------------------------------------
(* Bounds *)

\* get_inflation_rate is called with months_back in 0..MaxMonthsBack; the
\* provider returns at most months_back + 13 observations.
MaxMonthsBack == 1
\* The clock advances at most to this tick, and a calendar day lasts
\* TicksPerDay ticks.
MaxNow == 3
TicksPerDay == 2
\* User ids are 1..NumUsers.
NumUsers == 2
\* Messages submitted to the runtime, over all agents.
MaxMsgs == 2
\* The observations a metric series holds at most, and how many of the most
\* recent ones vary.
MaxSeriesLen == 13
RecentLen == 2
\* The messages of one runtime response, at most.
MaxResponseLen == 3
\* The server processes serving requests against the one runtime, and the
\* requests they serve at most, all together.
NumWorkers == 2
MaxServed == 3

----------------------------------------------------------------------------
(* Arithmetic on exact rationals *)

Rat(n, d) == [num |-> n, den |-> d]

\* num/den with den > 0 rounded to the nearest integer, ties to even
\* (what "%.0f" prints of a value that is exactly the rational).
RoundPos(n, d) ==
    LET q == n \div d
        r == n % d
    IN  IF 2 * r < d THEN q
        ELSE IF 2 * r > d THEN q + 1
        ELSE IF q % 2 = 0 THEN q ELSE q + 1

RoundHalfEven(n, d) == IF d > 0 THEN RoundPos(n, d) ELSE RoundPos(-n, -d)

\* r > a/b, for b > 0
RatGT(r, a, b) ==
    IF r.den > 0 THEN r.num * b > a * r.den ELSE r.num * b < a * r.den

RECURSIVE Reverse(_)
Reverse(s) == IF s = <<>> THEN <<>> ELSE Append(Reverse(Tail(s)), Head(s))

\* Faulty variant: the time of day is printed too, as strftime('%Y-%m-%d %H:%M').
strftime_datetime(t) == t

\* datetime.now().strftime('%Y-%m-%d'): the calendar day of tick t.
strftime_date(t) == t \div TicksPerDay

\* One line of a returned text: what it says (tag), the string and the two
\* numbers formatted into it ("" and 0 where it has none).
Line(tag, str, a, b) == [tag |-> tag, str |-> str, a |-> a, b |-> b]

----------------------------------------------------------------------------
(* FRED observations (tools/fred.py) *)

\* The value strings an observation carries: FRED's "." for a missing value,
\* and decimal numerals.
ValueStrings == {".", "0", "100", "104"}

\* float(s): the number a numeral denotes; float(".") raises ValueError.
FloatRaises(s) == s = "."

float(s) ==
    CASE s = "0" -> 0
      [] s = "2" -> 2
      [] s = "3" -> 3
      [] s = "4" -> 4
      [] s = "5" -> 5
      [] s = "6" -> 6
      [] s = "7" -> 7
      [] s = "100" -> 100
      [] s = "101" -> 101
      [] s = "102" -> 102
      [] s = "104" -> 104
      [] s = "105" -> 105

\* The YoY period offset: range(12, ...) and observations[i - 12].
YoYOffset == 12
\* The fewest observations get_inflation_rate computes from.
MinObservations == 13

\* sorted(observations, key=lambda x: x["date"]): a stable insertion sort.
RECURSIVE InsertByDate(_, _)
InsertByDate(obs, s) ==
    IF s = <<>> THEN <<obs>>
    ELSE IF obs.date < Head(s).date THEN <<obs>> \o s
    ELSE <<Head(s)>> \o InsertByDate(obs, Tail(s))

\* Faulty variant: the observations are used in the order fetched.
sorted_Unsorted(observations) == observations

RECURSIVE sorted(_)
sorted(observations) ==
    IF observations = <<>> THEN <<>>
    ELSE InsertByDate(observations[Len(observations)],
                      sorted(SubSeq(observations, 1, Len(observations) - 1)))

\* What the try block raises for one pair: float() raises ValueError on the
\* current value and then on the year-ago value, the division raises
\* ZeroDivisionError on a zero year-ago value.
PairRaises(current, year_ago) ==
    IF FloatRaises(current.value) \/ FloatRaises(year_ago.value) THEN "ValueError"
    ELSE IF float(year_ago.value) = 0 THEN "ZeroDivisionError"
    ELSE "none"

\* Faulty variant: only ValueError is caught.
Caught_ValueErrorOnly(exc) == exc = "ValueError"

\* except (ValueError, ZeroDivisionError): continue
Caught(exc) == exc \in {"ValueError", "ZeroDivisionError"}

\* ((current_val - year_ago_val) / year_ago_val) * 100, labelled current["date"]
YoYChange(current, year_ago) ==
    [date |-> current.date,
     rate |-> Rat((float(current.value) - float(year_ago.value)) * 100,
                  float(year_ago.value))]

\* for i in range(12, len(observations)): the rates appended from 0-based
\* index i on, and the exception that left the loop ("none" if it ran out).
RECURSIVE YoYFrom(_, _)
YoYFrom(observations, i) ==
    IF i >= Len(observations) THEN [rates |-> <<>>, raised |-> "none"]
    ELSE LET current == observations[i + 1]
             year_ago == observations[i + 1 - YoYOffset]
             exc == PairRaises(current, year_ago)
             rest == YoYFrom(observations, i + 1)
         IN  IF exc = "none"
             THEN [rates |-> <<YoYChange(current, year_ago)>> \o rest.rates,
                   raised |-> rest.raised]
             ELSE IF Caught(exc) THEN rest
             ELSE [rates |-> <<>>, raised |-> exc]

yoy_rates(observations) == YoYFrom(observations, YoYOffset)

\* f"{rate:.2f}": the rate in hundredths of a percent.
Fmt2(r) == RoundHalfEven(r.num * 100, r.den)

\* yoy_rates[-min(months_back, len(yoy_rates)):], Python's slice: a start of
\* -0 is 0, a negative start counts from the end, clamped to the list.
RecentRates(rates, months_back) ==
    LET m == IF months_back < Len(rates) THEN months_back ELSE Len(rates)
        start == IF m = 0 THEN 0
                 ELSE IF m > 0 THEN (IF Len(rates) - m > 0 THEN Len(rates) - m ELSE 0)
                 ELSE (IF -m < Len(rates) THEN -m ELSE Len(rates))
    IN  SubSeq(rates, start + 1, Len(rates))

InflationAssessment(latest) ==
    IF RatGT(latest, 4, 1) THEN "elevated"
    ELSE IF RatGT(latest, 5, 2) THEN "moderately above"
    ELSE IF RatGT(latest, 3, 2) THEN "near target"
    ELSE "below target"

\* Faulty variant: 12 observations pass for enough.
InsufficientData_OffByOne(result) ==
    result.kind = "no_observations" \/ Len(result.observations) < YoYOffset

\* The insufficient-data test of get_inflation_rate.
InsufficientData(result) ==
    result.kind = "no_observations" \/ Len(result.observations) < MinObservations

\* get_inflation_rate(months_back), given what _fetch_fred_data returned and
\* the day the call is made.  kind: "error" | "insufficient" | "report", or
\* "raised" when an exception leaves the function; yoy_rates is the
\* function's list of computed rates.
get_inflation_rate(months_back, result, t) ==
    IF result.kind = "error" THEN
        [kind |-> "error", yoy_rates |-> <<>>, lines |-> <<Line("Error", "fetch", 0, 0)>>]
    ELSE IF InsufficientData(result) THEN
        [kind |-> "insufficient", yoy_rates |-> <<>>,
         lines |-> <<Line("Insufficient data", "", 0, 0)>>]
    ELSE
        LET observations == sorted(result.observations)
            loop == yoy_rates(observations)
            rates == loop.rates
            shown == Reverse(RecentRates(rates, months_back))
        IN  IF loop.raised # "none" THEN
                [kind |-> "raised", yoy_rates |-> <<>>,
                 lines |-> <<Line("raised", loop.raised, 0, 0)>>]
            ELSE
            [kind |-> "report",
             yoy_rates |-> rates,
             lines |->
                <<Line("Inflation Rate (CPI Year-over-Year):", "", 0, 0),
                  Line("Data source", "FRED (CPIAUCSL)", 0, 0),
                  Line("Retrieved", "", strftime_date(t), 0),
                  Line("----", "", 0, 0)>>
                \o [j \in 1..Len(shown) |->
                        Line("rate", "", shown[j].date, Fmt2(shown[j].rate))]
                \o (IF rates # <<>>
                    THEN <<Line("", "", 0, 0),
                           Line("Current inflation rate", "", Fmt2(rates[Len(rates)].rate), 0),
                           Line("Assessment",
                                InflationAssessment(rates[Len(rates)].rate), 0, 0)>>
                    ELSE <<>>)]

----------------------------------------------------------------------------
(* What _fetch_fred_data can return to get_inflation_rate *)

\* A monthly series of n observations, dated 1..n in ascending order.  The
\* values YoY pairs read (the first and the last n - 12) are head and tail;
\* the months between carry mid.
Series(n, head, tail, mid) ==
    [i \in 1..n |->
        [date |-> i,
         value |-> IF i <= Len(head) THEN head[i]
                   ELSE IF i > n - Len(tail) THEN tail[i - (n - Len(tail))]
                   ELSE mid]]

PairCount(n) == IF n > YoYOffset THEN n - YoYOffset ELSE 0

\* The request asks for sort_order=desc; the provider's order is not relied
\* on by the code, which sorts.
ProviderOrder(order, series) == IF order = "desc" THEN Reverse(series) ELSE series

\* What _fetch_fred_data returns: {"error": ...} on httpx.HTTPError, a JSON
\* body without "observations", or the observations.
FetchError == [kind |-> "error", observations |-> <<>>]
FetchNoObservations == [kind |-> "no_observations", observations |-> <<>>]
FetchOk(observations) == [kind |-> "ok", observations |-> observations]

InflationCall(months_back, result) ==
    [tool |-> "get_inflation_rate", months_back |-> months_back, result |-> result]

\* A call of get_inflation_rate(m) and the outcome of its fetch, which asks
\* for at most m + 13 observations.
IsInflationCall(call) ==
    \E m \in 0..MaxMonthsBack :
        \/ call = InflationCall(m, FetchError)
        \/ call = InflationCall(m, FetchNoObservations)
        \/ \E n \in 0..(m + MinObservations), order \in {"desc", "asc"},
              mid \in ValueStrings :
              \E head \in [1..PairCount(n) -> ValueStrings],
                 tail \in [1..PairCount(n) -> ValueStrings] :
                 call = InflationCall(m,
                            FetchOk(ProviderOrder(order, Series(n, head, tail, mid))))

----------------------------------------------------------------------------
(* The chat gateway (agent/manager.py) over the agent runtime *)

Users == 1..NumUsers

\* agent_name = f"economic_advisor_{user_id}"
agent_name(user_id) == <<"economic_advisor_", user_id>>

\* The tools _register_tools registers, in its order.
tools ==
    <<"get_fred_data", "get_inflation_rate", "get_interest_rate",
      "get_unemployment_rate", "get_financial_news", "get_exchange_rate",
      "get_purchasing_power">>

ToolSet == {tools[j] : j \in 1..Len(tools)}

\* The tools for which create_from_function or attach raises in one
\* registration: none, one of them, or all (the runtime decides).
FailingSets == {{}, {"get_financial_news"}, ToolSet}

ProfileFields ==
    <<"income_range", "debt_level", "savings", "risk_tolerance", "financial_goals",
      "preferences">>

\* _get_default_user_profile()
default_user_profile ==
    [income_range |-> "Not specified", debt_level |-> "Not specified",
     savings |-> "Not specified", risk_tolerance |-> "Moderate (default)",
     financial_goals |-> "Not specified", preferences |-> "Standard explanation depth",
     past_interactions |-> "None yet"]

\* profile_data.get(key, default)
get(profile_data, key, default) ==
    IF key \in DOMAIN profile_data THEN profile_data[key] ELSE default

\* profile_str of update_user_profile: the six lines, no "Past Interactions".
profile_str(profile_data) ==
    [income_range |-> get(profile_data, "income_range", "Not specified"),
     debt_level |-> get(profile_data, "debt_level", "Not specified"),
     savings |-> get(profile_data, "savings", "Not specified"),
     risk_tolerance |-> get(profile_data, "risk_tolerance", "Moderate"),
     financial_goals |-> get(profile_data, "financial_goals", "Not specified"),
     preferences |-> get(profile_data, "preferences", "Standard explanation depth"),
     past_interactions |-> ""]

\* The profile_data dicts update_user_profile is called with.
ProfileInputs ==
    { <<>>,
      [income_range |-> "50k-75k"],
      [risk_tolerance |-> "Aggressive", savings |-> "10k"] }

\* memory_blocks of agents.create
InitialBlocks ==
    <<[label |-> "persona", value |-> "MEMORY_PERSONA"],
      [label |-> "human", value |-> "DEFAULT_HUMAN_DESCRIPTION"],
      [label |-> "user_profile", value |-> default_user_profile]>>

\* _agent_instance: Optional[EconomicAdvisorAgent] = None
NoInstance == [id |-> 0, base_url |-> ""]

\* No request answered yet.  A response is the route it answers, the HTTP
\* status, the detail of an HTTPException (prefix and str(e)) and the name of
\* the body returned.
NoResponse == [route |-> "none", status |-> 0, detail |-> <<>>, body |-> ""]

\* The server processes that serve requests against the one agent runtime,
\* each with a gateway of its own.
Workers == 1..NumWorkers

\* A server process between requests: its gateway as __init__ leaves it.
\* pc is its position in get_or_create_agent, found what agents.list()
\* showed it, agent_id its gateway's _agent_id (0 for None), served the
\* requests it has taken.
IdleWorker ==
    [pc |-> "idle", user_id |-> 0, found |-> {}, agent_id |-> 0, registered |-> FALSE,
     served |-> 0]

GatewayIdle ==
    /\ agents = <<>>
    /\ agent_id_ = None
    /\ tools_registered_ = FALSE
    /\ used = {}
    /\ ret = [op |-> "none"]
    /\ agent_instance_ = NoInstance
    /\ instances = 0
    /\ workers = [w \in Workers |-> IdleWorker]
    /\ http_response = NoResponse

\* Faulty variant: the lookup never matches.
FindAgent_NoMatch(store, name) == {}

\* for agent in agents: if agent.name == agent_name: the positions in the
\* runtime's list whose agent has the name.
FindAgent(store, name) == {i \in 1..Len(store) : store[i].name = name}

First(S) == CHOOSE i \in S : \A j \in S : i <= j

\* _register_tools(agent_id): the tools attached to the agent.  Nothing once
\* _tools_registered is set; otherwise every tool whose registration does not
\* raise (the exception is printed and the loop goes on).
register_tools(registered, failing) ==
    IF registered THEN {} ELSE {tools[j] : j \in {k \in 1..Len(tools) : tools[k] \notin failing}}

\* get_or_create_agent(user_id): the runtime's store, _agent_id and
\* _tools_registered after it, the id returned, and whether it created.
get_or_create_agent(store, registered, user_id, failing) ==
    LET found == FindAgent(store, agent_name(user_id))
    IN  IF found # {}
        THEN [agents |-> store,
              agent_id |-> store[First(found)].id,
              registered |-> registered,
              created |-> FALSE]
        ELSE LET id == Len(store) + 1
                 agent == [id |-> id,
                           name |-> agent_name(user_id),
                           memory_blocks |-> InitialBlocks,
                           tools |-> register_tools(registered, failing),
                           messages |-> 0]
             IN  [agents |-> Append(store, agent),
                  agent_id |-> id,
                  registered |-> TRUE,
                  created |-> TRUE]

\* The registration failures the runtime can answer an operation for user_id
\* with: they are drawn only when _register_tools will run its loop, that is
\* when the agent is to be created and _tools_registered is not yet set.
RegistrationFailures(Failing, user_id) ==
    IF tools_registered_ \/ FindAgent(agents, agent_name(user_id)) # {}
    THEN {{}} ELSE Failing

\* The position in the store of the agent with the id.
AgentAt(store, id) == CHOOSE i \in 1..Len(store) : store[i].id = id

RECURSIVE SumMessages(_)
SumMessages(store) ==
    IF store = <<>> THEN 0 ELSE Head(store).messages + SumMessages(Tail(store))

\* hasattr(obj, name)
hasattr(obj, name) == name \in DOMAIN obj

\* sep.join(texts); a text is the sequence of its pieces.
RECURSIVE join(_, _)
join(sep, texts) ==
    IF texts = <<>> THEN <<>>
    ELSE IF Len(texts) = 1 THEN texts[1]
    ELSE texts[1] \o <<sep>> \o join(sep, Tail(texts))

\* Faulty variant: the fallback stands in for an empty text too.
response_text_EmptyIsNone(assistant_messages) ==
    IF join("\n\n", assistant_messages) = <<>>
    THEN <<"I couldn't generate a response.">>
    ELSE join("\n\n", assistant_messages)

\* '\n\n'.join(assistant_messages) if assistant_messages else "I couldn't
\* generate a response."
response_text(assistant_messages) ==
    IF assistant_messages # <<>>
    THEN join("\n\n", assistant_messages)
    ELSE <<"I couldn't generate a response.">>

\* for msg in response.messages: the assistant_messages and tool_calls
\* lists after the loop, from their values before it.
RECURSIVE extract(_, _, _)
extract(messages, assistant_messages, tool_calls) ==
    IF messages = <<>>
    THEN [assistant_messages |-> assistant_messages, tool_calls |-> tool_calls]
    ELSE LET msg == Head(messages)
         IN  IF hasattr(msg, "message_type") /\ msg.message_type = "assistant_message"
             THEN extract(Tail(messages),
                          IF hasattr(msg, "content")
                          THEN Append(assistant_messages, msg.content)
                          ELSE assistant_messages,
                          tool_calls)
             ELSE IF hasattr(msg, "message_type") /\ msg.message_type = "tool_call_message"
             THEN extract(Tail(messages), assistant_messages,
                          IF hasattr(msg, "tool_call")
                          THEN Append(tool_calls,
                                 [name |-> IF hasattr(msg.tool_call, "name")
                                           THEN msg.tool_call.name ELSE "unknown",
                                  arguments |-> IF hasattr(msg.tool_call, "arguments")
                                                THEN msg.tool_call.arguments ELSE "{}"])
                          ELSE tool_calls)
             ELSE extract(Tail(messages), assistant_messages, tool_calls)

\* What the runtime answers a message with when the answer is not the
\* subject: one assistant message.
PlainResponse == <<[message_type |-> "assistant_message", content |-> <<"Hello.">>]>>

\* send_message(user_id, message): the agent is looked up or created, the
\* message is submitted to it, and the runtime's messages are relayed.
\* Failing: the sets of tools whose registration the runtime may fail;
\* Responses: the message lists the runtime may answer with.
SendMessage(Failing, Responses) ==
    \E user_id \in Users, messages \in Responses :
    \E failing \in RegistrationFailures(Failing, user_id) :
        LET g == get_or_create_agent(agents, tools_registered_, user_id, failing)
            i == AgentAt(g.agents, g.agent_id)
            lists == extract(messages, <<>>, <<>>)
        IN  /\ SumMessages(agents) < MaxMsgs
            /\ agents' = [g.agents EXCEPT ![i].messages = @ + 1]
            /\ agent_id_' = g.agent_id
            /\ tools_registered_' = g.registered
            /\ used' = used \cup {user_id}
            /\ ret' = [op |-> "send_message", user_id |-> user_id,
                       agent_id |-> g.agent_id, created |-> g.created,
                       response |-> response_text(lists.assistant_messages),
                       tool_calls |-> lists.tool_calls]
            /\ UNCHANGED <<tool_in, tool_out, now, prev_out, requests, workers>>

\* Faulty variant: a field the update leaves at its default keeps the value
\* the block had.
update_block_Merge(blocks, value) ==
    LET hits == {j \in 1..Len(blocks) : blocks[j].label = "user_profile"}
    IN  IF hits = {} THEN blocks
        ELSE [blocks EXCEPT ![First(hits)].value =
                [f \in DOMAIN value |->
                    IF value[f] = profile_str(<<>>)[f] THEN @[f] ELSE value[f]]]

\* for block in memory.blocks: if block.label == "user_profile":
\* update_block(...); break
update_block(blocks, value) ==
    LET hits == {j \in 1..Len(blocks) : blocks[j].label = "user_profile"}
    IN  IF hits = {} THEN blocks
        ELSE [blocks EXCEPT ![First(hits)].value = value]

\* update_user_profile(user_id, profile_data)
UpdateUserProfile(Failing) ==
    \E user_id \in Users, profile_data \in ProfileInputs :
    \E failing \in RegistrationFailures(Failing, user_id) :
        LET g == get_or_create_agent(agents, tools_registered_, user_id, failing)
            i == AgentAt(g.agents, g.agent_id)
        IN  /\ agents' = [g.agents EXCEPT
                            ![i].memory_blocks = update_block(@, profile_str(profile_data))]
            /\ agent_id_' = g.agent_id
            /\ tools_registered_' = g.registered
            /\ used' = used \cup {user_id}
            /\ ret' = [op |-> "update_user_profile", user_id |-> user_id,
                       agent_id |-> g.agent_id, created |-> g.created,
                       profile_data |-> profile_data]
            /\ UNCHANGED <<tool_in, tool_out, now, prev_out, requests, workers>>

\* get_conversation_history(user_id, limit): reads the agent's messages.
GetConversationHistory(Failing) ==
    \E user_id \in Users :
    \E failing \in RegistrationFailures(Failing, user_id) :
        LET g == get_or_create_agent(agents, tools_registered_, user_id, failing)
        IN  /\ agents' = g.agents
            /\ agent_id_' = g.agent_id
            /\ tools_registered_' = g.registered
            /\ used' = used \cup {user_id}
            /\ ret' = [op |-> "get_conversation_history", user_id |-> user_id,
                       agent_id |-> g.agent_id, created |-> g.created]
            /\ UNCHANGED <<tool_in, tool_out, now, prev_out, requests, workers>>

\* get_or_create_agent(user_id), called by itself (GET /profile/{user_id}).
GetOrCreateAgent(Failing) ==
    \E user_id \in Users :
    \E failing \in RegistrationFailures(Failing, user_id) :
        LET g == get_or_create_agent(agents, tools_registered_, user_id, failing)
        IN  /\ agents' = g.agents
            /\ agent_id_' = g.agent_id
            /\ tools_registered_' = g.registered
            /\ used' = used \cup {user_id}
            /\ ret' = [op |-> "get_or_create_agent", user_id |-> user_id,
                       agent_id |-> g.agent_id, created |-> g.created]
            /\ UNCHANGED <<tool_in, tool_out, now, prev_out, requests, workers>>

\* A gateway operation called on its own, outside a route handler: the
\* singleton and the HTTP response stay as they are.
Direct == UNCHANGED <<agent_instance_, instances, http_response>>

InitGateway ==
    /\ tool_in = [tool |-> "none"]
    /\ tool_out = NoOut
    /\ now = 0
    /\ prev_out = NoOut
    /\ requests = 0
    /\ GatewayIdle

\* The gateway's operations, called in any order for any user, the runtime
\* failing tool registrations as it will.
NextGateway ==
    \/ SendMessage(FailingSets, {PlainResponse}) /\ Direct
    \/ UpdateUserProfile(FailingSets) /\ Direct
    \/ GetConversationHistory(FailingSets) /\ Direct
    \/ GetOrCreateAgent(FailingSets) /\ Direct

SpecGateway == InitGateway /\ [][NextGateway]_vars

\* The same over a runtime in which no tool registration ever raises.
NextGatewayReliable ==
    \/ SendMessage({{}}, {PlainResponse}) /\ Direct
    \/ UpdateUserProfile({{}}) /\ Direct
    \/ GetConversationHistory({{}}) /\ Direct
    \/ GetOrCreateAgent({{}}) /\ Direct

SpecGatewayReliable == InitGateway /\ [][NextGatewayReliable]_vars

\* The base_url arguments get_agent is called with; the first is its default.
BaseUrls == {"http://localhost:8283", "http://letta:8283"}

\* Faulty variant: the instance is taken for missing at every call.
is_None_Always(instance) == TRUE

\* _agent_instance is None
is_None(instance) == instance = NoInstance

\* get_agent(base_url): the first call constructs the gateway, whose
\* __init__ clears _agent_id and _tools_registered; every call returns
\* _agent_instance.
GetAgent ==
    \E base_url \in BaseUrls :
        /\ IF is_None(agent_instance_)
           THEN /\ agent_instance_' = [id |-> instances + 1, base_url |-> base_url]
                /\ instances' = instances + 1
                /\ agent_id_' = None
                /\ tools_registered_' = FALSE
           ELSE UNCHANGED <<agent_instance_, instances, agent_id_, tools_registered_>>
        /\ ret' = [op |-> "get_agent", base_url |-> base_url, instance |-> agent_instance_']
        /\ UNCHANGED <<tool_in, tool_out, now, prev_out, requests, agents, used, workers,
                       http_response>>

\* The route handlers: each obtains the gateway with get_agent() and calls
\* one operation on it.
NextSingleton ==
    \/ GetAgent
    \/ ~is_None(agent_instance_) /\ SendMessage({{}}, {PlainResponse}) /\ Direct
    \/ ~is_None(agent_instance_) /\ UpdateUserProfile({{}}) /\ Direct
    \/ ~is_None(agent_instance_) /\ GetConversationHistory({{}}) /\ Direct
    \/ ~is_None(agent_instance_) /\ GetOrCreateAgent({{}}) /\ Direct

SpecSingleton == InitGateway /\ [][NextSingleton]_vars

\* The messages of a runtime response: assistant messages (one of them with
\* an empty text), tool calls, a reasoning message and an object without
\* message_type.
RuntimeMessages ==
    { [message_type |-> "assistant_message", content |-> <<"Inflation is 3%.">>],
      [message_type |-> "assistant_message", content |-> <<>>],
      [message_type |-> "tool_call_message",
       tool_call |-> [name |-> "get_inflation_rate", arguments |-> "{\"months_back\": 12}"]],
      [message_type |-> "tool_call_message",
       tool_call |-> [name |-> "get_exchange_rate", arguments |-> "{}"]],
      [message_type |-> "reasoning_message", reasoning |-> "The user asks ..."],
      [id |-> "message-1"] }

\* send_message alone, the runtime answering every message with the list of
\* messages drawn at the start.
InitRelay ==
    /\ \E n \in 0..MaxResponseLen :
       \E messages \in [1..n -> RuntimeMessages] :
           tool_in = [tool |-> "send_message", messages |-> messages]
    /\ tool_out = NoOut
    /\ now = 0
    /\ prev_out = NoOut
    /\ requests = 0
    /\ GatewayIdle

NextRelay == SendMessage({{}}, {tool_in.messages}) /\ Direct

SpecRelay == InitRelay /\ [][NextRelay]_vars

----------------------------------------------------------------------------
(* get_inflation_rate as a state machine: one call per behaviour *)

InitInflation ==
    /\ IsInflationCall(tool_in)
    /\ tool_out = NoOut
    /\ now = 0
    /\ prev_out = NoOut
    /\ requests = 0
    /\ GatewayIdle

CallInflationRate ==
    /\ tool_in.tool = "get_inflation_rate"
    /\ tool_out.kind = "none"
    /\ tool_out' = get_inflation_rate(tool_in.months_back, tool_in.result, now)
    /\ requests' = requests + 1
    /\ UNCHANGED <<tool_in, now, prev_out, agents, agent_id_, tools_registered_, used, ret,
                   agent_instance_, instances, workers, http_response>>

NextInflation == CallInflationRate

SpecInflation == InitInflation /\ [][NextInflation]_vars

----------------------------------------------------------------------------
(* get_purchasing_power (tools/exchange.py) *)

COST_OF_LIVING_INDEX ==
    ("New York" :> 187) @@ ("San Francisco" :> 179) @@ ("Los Angeles" :> 166)
    @@ ("Chicago" :> 107) @@ ("Houston" :> 96) @@ ("Miami" :> 123)
    @@ ("Seattle" :> 149) @@ ("Denver" :> 128) @@ ("Atlanta" :> 107)
    @@ ("Boston" :> 152) @@ ("US Average" :> 100) @@ ("London" :> 145)
    @@ ("Paris" :> 119) @@ ("Tokyo" :> 102) @@ ("Sydney" :> 118)
    @@ ("Toronto" :> 98) @@ ("Singapore" :> 115) @@ ("Hong Kong" :> 114)
    @@ ("Zurich" :> 165) @@ ("Berlin" :> 86) @@ ("Amsterdam" :> 106)

sample_locations ==
    <<"New York", "San Francisco", "Chicago", "Houston", "Denver", "US Average">>

\* Faulty variant: a location the table does not hold gets index 0.
LocationIndex_ZeroDefault(location) ==
    IF location \in DOMAIN COST_OF_LIVING_INDEX
    THEN COST_OF_LIVING_INDEX[location] ELSE 0

\* COST_OF_LIVING_INDEX.get(location, 100)
LocationIndex(location) ==
    IF location \in DOMAIN COST_OF_LIVING_INDEX
    THEN COST_OF_LIVING_INDEX[location] ELSE 100

\* An exception leaving a tool function.
RaisedOut(exc) == [kind |-> "raised", lines |-> <<Line("raised", exc, 0, 0)>>]

\* x / location_index: Python raises ZeroDivisionError on a divisor of 0,
\* for float and int operands alike.
ZeroDivision(divisor) == divisor = 0

\* Faulty variant: the value is cut to its integer part, not rounded.
Fmt0_Floor(r) == IF r.den > 0 THEN r.num \div r.den ELSE (-r.num) \div (-r.den)

\* f"{x:,.0f}": x to the nearest integer.
Fmt0(r) == RoundHalfEven(r.num, r.den)

\* Faulty variant: the ratio is inverted.
us_equivalent_Inverted(income, location_index) == Rat(income * location_index, 100)

\* us_equivalent = (income * 100) / location_index
us_equivalent(income, location_index) == Rat(income * 100, location_index)

\* Faulty variant: the two indices are swapped.
equivalent_in_compare_Swapped(income, compare_index, location_index) ==
    Rat(income * location_index, compare_index)

\* equivalent_in_compare = (income * compare_index) / location_index
equivalent_in_compare(income, compare_index, location_index) ==
    Rat(income * compare_index, location_index)

\* if compare_to and compare_to in COST_OF_LIVING_INDEX: None and "" are
\* falsy.
HasComparison(compare_to) ==
    /\ compare_to # None
    /\ compare_to # ""
    /\ compare_to \in DOMAIN COST_OF_LIVING_INDEX

\* The note on the location's index: more expensive, less expensive, or
\* nothing at index 100.
IndexNote(location, location_index) ==
    IF location_index > 100 THEN
        <<Line("Note: more expensive", location,
               Fmt0(Rat((location_index - 100) * 100, 100)), 0),
          Line("than the US average.", "", 0, 0)>>
    ELSE IF location_index < 100 THEN
        <<Line("Note: less expensive", location,
               Fmt0(Rat((100 - location_index) * 100, 100)), 0),
          Line("than the US average.", "", 0, 0)>>
    ELSE <<>>

\* The "Comparison to ..." section.
ComparisonSection(income, compare_to, location_index) ==
    LET compare_index == COST_OF_LIVING_INDEX[compare_to]
        eq == equivalent_in_compare(income, compare_index, location_index)
        \* eq > income, eq.den = location_index > 0
        more == eq.num > income * eq.den
    IN  <<Line("Comparison to", compare_to, 0, 0),
          Line("Cost of Living Index (compare)", "", compare_index, 0),
          Line("To maintain your current lifestyle in", compare_to, 0, 0),
          Line("you would need", "", Fmt0(eq), 0),
          IF more
          THEN Line("That's more than your current income",
                    "", Fmt0(Rat(eq.num - income * eq.den, eq.den)), 0)
          ELSE Line("That's less than your current income",
                    "", Fmt0(Rat(income * eq.den - eq.num, eq.den)), 0)>>

\* The table of equivalent incomes in the sample locations.
EquivalentTable(income, location, location_index) ==
    LET locs == SelectSeq(sample_locations,
                          LAMBDA loc : loc \in DOMAIN COST_OF_LIVING_INDEX
                                       /\ loc # location)
    IN  [j \in 1..Len(locs) |->
            Line("equivalent in", locs[j],
                 Fmt0(Rat(income * COST_OF_LIVING_INDEX[locs[j]], location_index)), 0)]

\* get_purchasing_power(income, location, compare_to) called at tick t.
\* The function has no raise statement and no early return: it returns the
\* report unless a division raises, and every division of the function is
\* by location_index.  at is the tick of the call.
get_purchasing_power(income, location, compare_to, t) ==
    LET location_index == LocationIndex(location)
    IN  IF ZeroDivision(location_index) THEN RaisedOut("ZeroDivisionError") ELSE
        [kind |-> "report",
         at |-> t,
         lines |->
            <<Line("Purchasing Power Analysis", "", 0, 0),
              Line("Analysis date", "", strftime_date(t), 0),
              Line("====", "", 0, 0),
              Line("Your situation:", "", 0, 0),
              Line("Income", "", Fmt0(Rat(income, 1)), 0),
              Line("Location", location, 0, 0),
              Line("Cost of Living Index", "", location_index, 0),
              Line("Purchasing power analysis:", "", 0, 0),
              Line("Your income has the same", location, Fmt0(Rat(income, 1)), 0),
              Line("purchasing power as", "",
                   Fmt0(us_equivalent(income, location_index)), 0),
              Line("city with average US cost of living.", "", 0, 0)>>
            \o IndexNote(location, location_index)
            \o (IF HasComparison(compare_to)
                THEN ComparisonSection(income, compare_to, location_index)
                ELSE <<>>)
            \o <<Line("----", "", 0, 0),
                 Line("Equivalent income needed in other locations:", "", 0, 0),
                 Line("(to match)", location, Fmt0(Rat(income, 1)), 0),
                 Line("", "", 0, 0)>>
            \o EquivalentTable(income, location, location_index)
            \o <<Line("----", "", 0, 0),
                 Line("Note: Cost of living data is approximate and varies", "", 0, 0),
                 Line("by lifestyle and specific neighborhood.", "", 0, 0)>>]

\* The calls made: incomes positive, zero and negative; locations above, below
\* and at the baseline, and one the table does not hold; compare_to omitted
\* (None), empty, in the table, or not.
Incomes == <<100000, 50000, 0, -50000>>
Locations == {"New York", "Houston", "US Average", "Atlantis"}
CompareTos == {None, "", "US Average", "New York", "Atlantis"}

IsPurchasingPowerCall(call) ==
    \E k \in 1..Len(Incomes), l \in Locations, c \in CompareTos :
        call = [tool |-> "get_purchasing_power", income |-> Incomes[k],
                location |-> l, compare_to |-> c]

----------------------------------------------------------------------------
(* get_purchasing_power as a state machine: the agent calls the tool again *)
(* and again with the same arguments while the clock runs.                 *)

InitPurchasingPower ==
    /\ IsPurchasingPowerCall(tool_in)
    /\ tool_out = NoOut
    /\ now = 0
    /\ prev_out = NoOut
    /\ requests = 0
    /\ GatewayIdle

CallPurchasingPower ==
    /\ tool_in.tool = "get_purchasing_power"
    /\ tool_out' = get_purchasing_power(tool_in.income, tool_in.location,
                                        tool_in.compare_to, now)
    /\ prev_out' = tool_out
    /\ UNCHANGED <<tool_in, now, agents, agent_id_, tools_registered_, used, ret,
                   requests, agent_instance_, instances, workers, http_response>>

Tick ==
    /\ now < MaxNow
    /\ now' = now + 1
    /\ UNCHANGED <<tool_in, tool_out, prev_out, agents, agent_id_, tools_registered_,
                   used, ret, requests, agent_instance_, instances, workers, http_response>>

NextPurchasingPower == CallPurchasingPower \/ Tick

SpecPurchasingPower == InitPurchasingPower /\ [][NextPurchasingPower]_vars

----------------------------------------------------------------------------
(* The request to a provider and the _fetch_* helpers *)

\* Faulty variant: only an error status is caught.
IsHTTPError_StatusOnly(exc) == exc = "HTTPStatusError"

\* except httpx.HTTPError: the exceptions of the request that the helpers
\* catch.  client.get raises TimeoutException or ConnectError,
\* raise_for_status raises HTTPStatusError; all three are httpx.HTTPError.
\* The JSONDecodeError response.json() raises on a body that is not JSON is
\* a ValueError and is not caught.
IsHTTPError(exc) == exc \in {"TimeoutException", "ConnectError", "HTTPStatusError"}

\* What the try block of a helper can do: raise, or return the decoded body.
Raises(exc) == [kind |-> "raises", exc |-> exc]
Body(json) == [kind |-> "json", json |-> json]

\* The failures of the network call (client.get and raise_for_status), and
\* the failure of decoding the body of a response that arrived.
NetworkFailures == {Raises("TimeoutException"), Raises("ConnectError"),
                    Raises("HTTPStatusError")}
DecodeFailure == Raises("JSONDecodeError")

\* Faulty variant: a request that raised is sent once more.
requests_sent_Retry(response) == IF response.kind = "raises" THEN 2 ELSE 1

\* The requests a _fetch_* helper sends in one call: its try block holds one
\* client.get, in no loop, and its except clause returns.
requests_sent(response) == 1

FetchRaised(exc) == [kind |-> "raised", observations |-> <<>>, exc |-> exc]

\* _fetch_fred_data: {"error": ...} for a caught exception, the exception
\* itself for any other, else the body, which carries "observations" or not.
fetch_fred_data(response) ==
    IF response.kind = "raises"
    THEN IF IsHTTPError(response.exc) THEN FetchError ELSE FetchRaised(response.exc)
    ELSE IF "observations" \in DOMAIN response.json
         THEN FetchOk(response.json.observations)
         ELSE FetchNoObservations

\* loop.run_until_complete(_fetch_...): an exception of the helper leaves
\* the tool function; otherwise the function goes on to its output.
Propagate(result, out) == IF result.kind = "raised" THEN RaisedOut(result.exc) ELSE out

ErrorOut == [kind |-> "error", lines |-> <<Line("Error", "fetch", 0, 0)>>]
NoDataOut(str) == [kind |-> "no_data", lines |-> <<Line(str, "", 0, 0)>>]

----------------------------------------------------------------------------
(* The metric formatters of tools/fred.py *)

\* strftime('%Y-%m-%d %H:%M UTC'): the clock to the minute; a tick is no
\* shorter than a minute.
strftime_minute(t) == t

\* [obs for obs in observations if obs.get("value") != "."]
Valid(observations) == SelectSeq(observations, LAMBDA obs : obs.value # ".")

\* f"{x:.1f}" of a number: in tenths.
Fmt1(r) == RoundHalfEven(r.num * 10, r.den)

\* One "  {date}: {value}" line per observation of the list.
ObservationLines(observations) ==
    [j \in 1..Len(observations) |->
        Line("obs", observations[j].value, observations[j].date, 0)]

\* get_fred_data(series_id, limit)
get_fred_data(series_id, result, t) ==
    Propagate(result,
    IF result.kind = "error" THEN ErrorOut
    ELSE IF result.kind = "no_observations" \/ result.observations = <<>>
    THEN NoDataOut("No data found for series")
    ELSE [kind |-> "report",
          lines |-> <<Line("FRED Data for", series_id, 0, 0),
                      Line("Data retrieved", "", strftime_minute(t), 0),
                      Line("----", "", 0, 0)>>
                    \o ObservationLines(Valid(result.observations))])

\* rate_map.keys()
rate_map == {"fed_funds", "prime", "treasury_10y", "treasury_2y", "mortgage_30y"}

\* observations[:12]
ShownRates == 12

\* Faulty variant: every observation is shown.
Shown_All(observations) == observations

Shown(observations) ==
    SubSeq(observations, 1, IF Len(observations) < ShownRates
                            THEN Len(observations) ELSE ShownRates)

\* The context of get_interest_rate: the first rule the rate satisfies.
FedFundsContext(rate) ==
    IF rate > 5 THEN "relatively high"
    ELSE IF rate > 2 THEN "moderate"
    ELSE "low"

\* Faulty variant: the rules are not alternatives.
ContextLines_Every(rate_type, observations) ==
    IF rate_type = "fed_funds" /\ observations # <<>> /\ ~FloatRaises(observations[1].value)
    THEN <<Line("", "", 0, 0)>>
         \o (IF float(observations[1].value) > 5
             THEN <<Line("Context", "relatively high", 0, 0)>> ELSE <<>>)
         \o (IF float(observations[1].value) > 2
             THEN <<Line("Context", "moderate", 0, 0)>> ELSE <<>>)
    ELSE <<>>

\* if rate_type == "fed_funds" and observations: try: ... except ValueError
ContextLines(rate_type, observations) ==
    IF rate_type = "fed_funds" /\ observations # <<>> /\ ~FloatRaises(observations[1].value)
    THEN <<Line("", "", 0, 0),
           Line("Context", FedFundsContext(float(observations[1].value)), 0, 0)>>
    ELSE <<>>

\* if len(observations) >= 2: try: ... except ValueError: pass
ChangeLines(observations) ==
    IF Len(observations) >= 2
       /\ ~FloatRaises(observations[1].value) /\ ~FloatRaises(observations[2].value)
    THEN LET current == float(observations[1].value)
             previous == float(observations[2].value)
             change == current - previous
         IN  <<Line("", "", 0, 0),
               Line("Current rate", "", Fmt2(Rat(current, 1)), 0),
               Line("Change from previous", "", Fmt2(Rat(change, 1)), 0)>>
    ELSE <<>>

\* get_interest_rate(rate_type); the fetch happens only for a known type.
get_interest_rate(rate_type, result, t) ==
    IF rate_type \notin rate_map
    THEN [kind |-> "unknown_rate_type", lines |-> <<Line("Unknown rate type", rate_type, 0, 0)>>]
    ELSE Propagate(result,
         IF result.kind = "error" THEN ErrorOut
         ELSE IF result.kind = "no_observations" \/ result.observations = <<>>
         THEN NoDataOut("No data found for")
         ELSE LET observations == Valid(result.observations)
              IN  IF observations = <<>> THEN NoDataOut("No valid data found for")
                  ELSE [kind |-> "report",
                        lines |-> <<Line("rate_name", rate_type, 0, 0),
                                    Line("Data source", "FRED", 0, 0),
                                    Line("Retrieved", "", strftime_date(t), 0),
                                    Line("----", "", 0, 0)>>
                                  \o ObservationLines(Shown(observations))
                                  \o ChangeLines(observations)
                                  \o ContextLines(rate_type, observations)])

\* The assessment of get_unemployment_rate: the first rule the rate satisfies.
UnemploymentAssessment(current) ==
    IF current < 4 THEN "very tight"
    ELSE IF current < 5 THEN "healthy"
    ELSE IF current < 7 THEN "elevated"
    ELSE "high"

\* valid_obs = [...]; if valid_obs: try: ... except ValueError: pass
AnalysisLines(valid_obs) ==
    IF valid_obs # <<>> /\ ~FloatRaises(valid_obs[1].value)
    THEN LET current == float(valid_obs[1].value)
         IN  <<Line("", "", 0, 0),
               Line("Current unemployment rate", "", Fmt1(Rat(current, 1)), 0),
               Line("Assessment", UnemploymentAssessment(current), 0, 0),
               Line("Implication", UnemploymentAssessment(current), 0, 0)>>
    ELSE <<>>

\* get_unemployment_rate(months_back)
get_unemployment_rate(months_back, result, t) ==
    Propagate(result,
    IF result.kind = "error" THEN ErrorOut
    ELSE IF result.kind = "no_observations" \/ result.observations = <<>>
    THEN NoDataOut("No unemployment data found")
    ELSE [kind |-> "report",
          lines |-> <<Line("U.S. Unemployment Rate:", "", 0, 0),
                      Line("Data source", "FRED (UNRATE)", 0, 0),
                      Line("Retrieved", "", strftime_date(t), 0),
                      Line("----", "", 0, 0)>>
                    \o ObservationLines(Valid(result.observations))
                    \o AnalysisLines(Valid(result.observations))])

----------------------------------------------------------------------------
(* get_exchange_rate (tools/exchange.py) *)

\* str.upper() of a currency code.
upper(s) ==
    CASE s = "usd" -> "USD"
      [] s = "eur" -> "EUR"
      [] OTHER -> s

\* _fetch_exchange_rates(base_currency): the dict it returns; raised: the
\* exception that leaves it.
fetch_exchange_rates(response) ==
    IF response.kind = "raises"
    THEN IF IsHTTPError(response.exc)
         THEN [error |-> "Failed to fetch exchange rates"]
         ELSE [raised |-> response.exc]
    ELSE response.json

\* f"{x:.4f}": in ten-thousandths.
Fmt4(r) == RoundHalfEven(r.num * 10000, r.den)

major_currencies == <<"EUR", "GBP", "JPY", "CAD", "AUD", "CHF">>

\* 1 / rate if rate != 0 else 0
inverse_rate(rate) == IF rate.num # 0 THEN Rat(rate.den, rate.num) ELSE Rat(0, 1)

\* Faulty variant: a target the rates lack is looked up all the same.
TargetMissing_Never(to_currency, rates) == FALSE

\* if to_currency not in rates
TargetMissing(to_currency, rates) == to_currency \notin DOMAIN rates

\* get_exchange_rate(from_currency, to_currency, amount)
get_exchange_rate(from_currency, to_currency, amount, result, t) ==
    LET from == upper(from_currency)
        to == upper(to_currency)
    IN  IF "raised" \in DOMAIN result THEN RaisedOut(result.raised)
        ELSE IF "error" \in DOMAIN result THEN ErrorOut
        ELSE LET rates == IF "rates" \in DOMAIN result THEN result.rates ELSE <<>>
             IN  IF TargetMissing(to, rates)
                 THEN [kind |-> "not_found",
                       lines |-> <<Line("Currency code not found", to, 0, 0)>>]
                 ELSE IF to \notin DOMAIN rates THEN RaisedOut("KeyError")
                 ELSE
                 LET rate == rates[to]
                     converted == Rat(amount * rate.num, rate.den)
                     others == SelectSeq(major_currencies,
                                  LAMBDA curr : /\ curr \in DOMAIN rates
                                                /\ curr # to /\ curr # from)
                 IN  [kind |-> "report",
                      lines |->
                        <<Line("Exchange Rate", from, 0, 0),
                          Line("to", to, 0, 0),
                          Line("Data retrieved", "", strftime_minute(t), 0),
                          Line("----", "", 0, 0),
                          Line("Current rate", "", Fmt4(rate), 0),
                          Line("Conversion", "", Fmt2(Rat(amount, 1)), Fmt2(converted)),
                          Line("Inverse rate", "", Fmt4(inverse_rate(rate)), 0),
                          Line("", "", 0, 0),
                          Line("Other rates from", from, 0, 0)>>
                        \o [j \in 1..Len(others) |->
                               Line("other", others[j], Fmt4(rates[others[j]]), 0)]]

----------------------------------------------------------------------------
(* get_financial_news (tools/news.py) *)

\* _get_mock_news(query): two placeholder articles, published now.
get_mock_news(query, t) ==
    <<[title |-> "[Demo] Economic outlook remains uncertain amid {query} concerns",
       description |-> "This is demo data. Configure NEWS_API_KEY for real news.",
       source |-> "Demo Source",
       publishedAt |-> [iso |-> TRUE, at |-> t],
       url |-> "https://newsapi.org"],
      [title |-> "[Demo] Markets react to latest {query} developments",
       description |-> "This is demo data. Configure NEWS_API_KEY for real news.",
       source |-> "Demo Source",
       publishedAt |-> [iso |-> TRUE, at |-> t],
       url |-> "https://newsapi.org"]>>

\* Faulty variant: the request is sent whether or not there is a key.
HasNoKey_Ignored(api_key) == FALSE

\* if not api_key
HasNoKey(api_key) == api_key = ""

\* _fetch_news(query, ...): the dict it returns; raised: the exception that
\* leaves it.  Without a key no request is sent.
fetch_news(query, api_key, response, t) ==
    IF HasNoKey(api_key)
    THEN [error |-> "NEWS_API_KEY not configured", articles |-> get_mock_news(query, t)]
    ELSE IF response.kind = "raises"
    THEN IF IsHTTPError(response.exc)
         THEN [error |-> "Failed to fetch news"]
         ELSE [raised |-> response.exc]
    ELSE response.json

\* The lines of one article, the i-th.
ArticleLines(article, i) ==
    LET title == get(article, "title", "No title")
        source == get(article, "source", "Unknown source")
        published == get(article, "publishedAt", [iso |-> FALSE, at |-> 0])
        url == get(article, "url", "")
        description == get(article, "description", "")
    IN  <<Line("title", title, i, 0),
          Line("Source", source, IF published.iso THEN strftime_date(published.at) ELSE -1, 0)>>
        \o (IF description # "" THEN <<Line("Summary", description, 0, 0)>> ELSE <<>>)
        \o (IF url # "" THEN <<Line("Link", url, 0, 0)>> ELSE <<>>)

RECURSIVE AllArticleLines(_, _)
AllArticleLines(articles, i) ==
    IF i > Len(articles) THEN <<>>
    ELSE ArticleLines(articles[i], i) \o AllArticleLines(articles, i + 1)

\* get_financial_news(topic, days_back, max_articles), given the key of the
\* environment and what the request does.
get_financial_news(topic, days_back, max_articles, api_key, response, t) ==
    LET result == fetch_news(topic, api_key, response, t)
    IN  IF "raised" \in DOMAIN result THEN RaisedOut(result.raised)
        ELSE IF "error" \in DOMAIN result /\ "articles" \notin DOMAIN result THEN ErrorOut
        ELSE LET articles == get(result, "articles", <<>>)
             IN  IF articles = <<>>
                 THEN NoDataOut("No recent news found for topic")
                 ELSE [kind |-> "report",
                       lines |-> <<Line("Financial News", topic, 0, 0),
                                   Line("Retrieved", "", strftime_minute(t), 0),
                                   Line("Showing", "", Len(articles), days_back),
                                   Line("====", "", 0, 0)>>
                                 \o AllArticleLines(articles, 1)
                                 \o <<Line("====", "", 0, 0),
                                      Line("Note", "", 0, 0),
                                      Line("Cross-reference", "", 0, 0)>>]

----------------------------------------------------------------------------
(* The tools that fetch, as a state machine: one call per behaviour, the   *)
(* provider answering the request as it will.                              *)

\* The value strings of a rate series, and of a price index.
RateStrings == {".", "2", "3", "4", "5", "6", "7"}
PriceStrings == {".", "100", "101", "102", "104", "105"}

\* What a request to FRED can do: fail, answer with a body that is not JSON,
\* with a JSON body without "observations", or with the observations.
FredResponses(observations) ==
    NetworkFailures \cup
    {DecodeFailure, Body([error_message |-> "Bad Request"]),
     Body([observations |-> observations])}

\* The rate types get_interest_rate is called with; "libor" is not in rate_map.
RateTypes == {"fed_funds", "mortgage_30y", "libor"}

\* A call of a metric formatter and what its request does.  The series has
\* n observations, at most the limit asked for, and comes as FRED returns it
\* for sort_order=desc, the most recent first: the most recent observations
\* carry recent, the older ones mid.  get_interest_rate asks for 52.
IsMetricCall(call) ==
    \E limit \in {RecentLen, MaxSeriesLen} :
    \E n \in 0..limit, mid \in {".", "3"} :
    \E recent \in [1..(IF n < RecentLen THEN n ELSE RecentLen) -> RateStrings] :
    \E response \in FredResponses(ProviderOrder("desc", Series(n, <<>>, recent, mid))) :
        \/ call = [tool |-> "get_fred_data", series_id |-> "UNRATE",
                   limit |-> limit, response |-> response]
        \/ call = [tool |-> "get_unemployment_rate", months_back |-> limit,
                   response |-> response]
        \/ \E rate_type \in RateTypes :
              call = [tool |-> "get_interest_rate", rate_type |-> rate_type,
                      response |-> response]

\* A call of get_inflation_rate(m) and what its request does: a price index
\* of m + 13 months whose first m + 1 months are at 100.
IsPriceCall(call) ==
    \E m \in 0..MaxMonthsBack :
    \E recent \in [1..(m + 1) -> PriceStrings] :
    \E response \in FredResponses(ProviderOrder("desc",
                       Series(m + MinObservations, [i \in 1..(m + 1) |-> "100"],
                              recent, "100"))) :
        call = [tool |-> "get_inflation_rate", months_back |-> m, response |-> response]

\* The rates tables the exchange-rate provider answers with.
RatesTables ==
    { ("EUR" :> Rat(9, 10)) @@ ("GBP" :> Rat(4, 5)) @@ ("JPY" :> Rat(150, 1))
        @@ ("USD" :> Rat(1, 1)),
      ("EUR" :> Rat(0, 1)),
      <<>> }

\* The base currencies the provider has rates for.
KnownBases == {"USD", "EUR"}

\* What a request for the rates of a base can do; for a base the provider
\* does not know the lookup fails.
ExchangeResponses(base) ==
    IF base \in KnownBases
    THEN NetworkFailures \cup {DecodeFailure, Body([result |-> "error"])}
         \cup {Body([rates |-> r]) : r \in RatesTables}
    ELSE NetworkFailures

IsExchangeCall(call) ==
    \E from_currency \in {"USD", "usd", "XXX"}, to_currency \in {"EUR", "eur", "JPY", "ZZZ"},
       amount \in {1, 100} :
    \E response \in ExchangeResponses(upper(from_currency)) :
        call = [tool |-> "get_exchange_rate", from_currency |-> from_currency,
                to_currency |-> to_currency, amount |-> amount, response |-> response]

\* The articles NewsAPI answers with: none, one, or one and a bare one.
NewsArticle ==
    [title |-> "Fed holds rates steady", description |-> "The Federal Reserve ...",
     source |-> "Reuters", publishedAt |-> [iso |-> TRUE, at |-> 0],
     url |-> "https://example.com/fed"]
BareArticle == [publishedAt |-> [iso |-> FALSE, at |-> 0]]

NewsResponses ==
    NetworkFailures \cup
    {DecodeFailure, Body([status |-> "ok"]), Body([status |-> "ok", articles |-> <<>>]),
     Body([status |-> "ok", articles |-> <<NewsArticle>>]),
     Body([status |-> "ok", articles |-> <<NewsArticle, BareArticle>>])}

\* api_key: os.getenv("NEWS_API_KEY", ""), empty when the key is not set.
IsNewsCall(call) ==
    \E topic \in {"economy", "inflation"}, max_articles \in {0, 10}, api_key \in {"", "key"} :
    \E response \in NewsResponses :
        call = [tool |-> "get_financial_news", topic |-> topic, days_back |-> 7,
                max_articles |-> max_articles, api_key |-> api_key, response |-> response]

InitTools ==
    /\ \/ IsMetricCall(tool_in)
       \/ IsPriceCall(tool_in)
       \/ IsExchangeCall(tool_in)
       \/ IsNewsCall(tool_in)
    /\ tool_out = NoOut
    /\ now = 0
    /\ prev_out = NoOut
    /\ requests = 0
    /\ GatewayIdle

Idle == <<now, prev_out, agents, agent_id_, tools_registered_, used, ret, agent_instance_,
          instances, workers, http_response>>

CallFredData ==
    /\ tool_in.tool = "get_fred_data"
    /\ tool_out.kind = "none"
    /\ tool_out' = get_fred_data(tool_in.series_id, fetch_fred_data(tool_in.response), now)
    /\ requests' = requests + requests_sent(tool_in.response)
    /\ UNCHANGED <<tool_in, Idle>>

CallInterestRate ==
    /\ tool_in.tool = "get_interest_rate"
    /\ tool_out.kind = "none"
    /\ tool_out' = get_interest_rate(tool_in.rate_type, fetch_fred_data(tool_in.response), now)
    /\ requests' = IF tool_in.rate_type \in rate_map
                   THEN requests + requests_sent(tool_in.response) ELSE requests
    /\ UNCHANGED <<tool_in, Idle>>

CallUnemploymentRate ==
    /\ tool_in.tool = "get_unemployment_rate"
    /\ tool_out.kind = "none"
    /\ tool_out' = get_unemployment_rate(tool_in.months_back,
                                         fetch_fred_data(tool_in.response), now)
    /\ requests' = requests + requests_sent(tool_in.response)
    /\ UNCHANGED <<tool_in, Idle>>

\* get_inflation_rate with its fetch.
FetchInflationRate ==
    /\ tool_in.tool = "get_inflation_rate"
    /\ tool_out.kind = "none"
    /\ LET result == fetch_fred_data(tool_in.response)
       IN  tool_out' = IF result.kind = "raised" THEN RaisedOut(result.exc)
                       ELSE get_inflation_rate(tool_in.months_back, result, now)
    /\ requests' = requests + requests_sent(tool_in.response)
    /\ UNCHANGED <<tool_in, Idle>>

CallExchangeRate ==
    /\ tool_in.tool = "get_exchange_rate"
    /\ tool_out.kind = "none"
    /\ tool_out' = get_exchange_rate(tool_in.from_currency, tool_in.to_currency,
                                     tool_in.amount,
                                     fetch_exchange_rates(tool_in.response), now)
    /\ requests' = requests + requests_sent(tool_in.response)
    /\ UNCHANGED <<tool_in, Idle>>

CallFinancialNews ==
    /\ tool_in.tool = "get_financial_news"
    /\ tool_out.kind = "none"
    /\ tool_out' = get_financial_news(tool_in.topic, tool_in.days_back,
                                      tool_in.max_articles, tool_in.api_key,
                                      tool_in.response, now)
    /\ requests' = IF HasNoKey(tool_in.api_key) THEN requests
                   ELSE requests + requests_sent(tool_in.response)
    /\ UNCHANGED <<tool_in, Idle>>

NextTools ==
    \/ CallFredData
    \/ CallInterestRate
    \/ CallUnemploymentRate
    \/ FetchInflationRate
    \/ CallExchangeRate
    \/ CallFinancialNews

SpecTools == InitTools /\ [][NextTools]_vars

\* Every tool, get_purchasing_power, which fetches nothing, among them.
InitFetches ==
    /\ \/ IsMetricCall(tool_in)
       \/ IsPriceCall(tool_in)
       \/ IsExchangeCall(tool_in)
       \/ IsNewsCall(tool_in)
       \/ IsPurchasingPowerCall(tool_in)
    /\ tool_out = NoOut
    /\ now = 0
    /\ prev_out = NoOut
    /\ requests = 0
    /\ GatewayIdle

NextFetches == NextTools \/ CallPurchasingPower

SpecFetches == InitFetches /\ [][NextFetches]_vars

(***************************************************************************)
(* get_or_create_agent step by step.  It makes two calls of the runtime,   *)
(* agents.list() and agents.create(), and holds no lock between them, so   *)
(* requests served by different server processes against the one runtime   *)
(* interleave at the calls.                                                *)
(***************************************************************************)

\* The requests the server processes have taken so far.
RECURSIVE Served(_)
Served(ws) == IF ws = <<>> THEN 0 ELSE Head(ws).served + Served(Tail(ws))

\* What the runtime answers agents.create with when the name is already in
\* its store: the client passes no uniqueness condition, the runtime decides.
DuplicateNames == {"accepted", "rejected"}

\* agents.create(name=agent_name, memory_blocks=[...]) followed by
\* _register_tools(agent.id): the runtime's store with the new agent, whose id
\* the runtime assigns.
agents_create(store, user_id, attached) ==
    Append(store, [id |-> Len(store) + 1,
                   name |-> agent_name(user_id),
                   memory_blocks |-> InitialBlocks,
                   tools |-> attached,
                   messages |-> 0])

\* A request for user_id reaches server process w, whose handler enters
\* get_or_create_agent: agents = self.client.agents.list()
ListAgents(w) ==
    /\ workers[w].pc = "idle"
    /\ Served(workers) < MaxServed
    /\ \E user_id \in Users :
           workers' = [workers EXCEPT ![w] =
                          [@ EXCEPT !.pc = "listed",
                                    !.served = @ + 1,
                                    !.user_id = user_id,
                                    !.found = FindAgent(agents, agent_name(user_id))]]
    /\ UNCHANGED <<tool_in, tool_out, now, prev_out, agents, agent_id_, tools_registered_,
                   used, ret, requests, agent_instance_, instances, http_response>>

\* The rest of get_or_create_agent: the loop over the list returns the first
\* agent with the name; when the list had none, agents.create and
\* _register_tools.  A create the runtime rejects raises out of the method.
CreateOrReturn(w) ==
    /\ workers[w].pc = "listed"
    /\ LET user_id == workers[w].user_id
           found == workers[w].found
       IN  IF found # {}
           THEN /\ workers' = [workers EXCEPT ![w] =
                                  [@ EXCEPT !.pc = "idle",
                                            !.agent_id = agents[First(found)].id]]
                /\ UNCHANGED agents
           ELSE \E outcome \in IF FindAgent(agents, agent_name(user_id)) # {}
                               THEN DuplicateNames ELSE {"accepted"} :
                    IF outcome = "accepted"
                    THEN /\ agents' = agents_create(agents, user_id,
                                          register_tools(workers[w].registered, {}))
                         /\ workers' = [workers EXCEPT ![w] =
                                           [@ EXCEPT !.pc = "idle",
                                                     !.agent_id = Len(agents) + 1,
                                                     !.registered = TRUE]]
                    ELSE /\ workers' = [workers EXCEPT ![w] = [@ EXCEPT !.pc = "idle"]]
                         /\ UNCHANGED agents
    /\ used' = used \cup {workers[w].user_id}
    /\ UNCHANGED <<tool_in, tool_out, now, prev_out, agent_id_, tools_registered_,
                   ret, requests, agent_instance_, instances, http_response>>

NextWorkers ==
    \/ \E w \in Workers : ListAgents(w)
    \/ \E w \in Workers : CreateOrReturn(w)

SpecWorkers == InitGateway /\ [][NextWorkers]_vars

(***************************************************************************)
(* The route handlers of api/routes.py.  Each runs to its end before the   *)
(* next one starts: they are coroutines that never await.                  *)
(***************************************************************************)

\* The exceptions the gateway's calls of the runtime raise: the client's
\* ApiError on an error status, httpx's errors when the runtime cannot be
\* reached or does not answer in time.
GatewayErrors == {"ApiError", "ConnectError", "ReadTimeout"}

\* Faulty variant: only the client's own error class is caught.
Catches_ApiErrorOnly(exc) == exc = "ApiError"

\* except Exception as e: the classes the clause catches.  KeyboardInterrupt,
\* SystemExit and asyncio.CancelledError derive from BaseException alone.
Catches(exc) == exc \notin {"KeyboardInterrupt", "SystemExit", "CancelledError"}

\* The except clause: raise HTTPException(status_code=500,
\* detail=f"{prefix}: {str(e)}").  An exception the clause does not catch
\* leaves the handler, and the server answers 500 "Internal Server Error"
\* with no detail.
HandlerRaised(route, prefix, exc) ==
    IF Catches(exc)
    THEN [route |-> route, status |-> 500, detail |-> <<prefix, exc>>, body |-> ""]
    ELSE [route |-> route, status |-> 500, detail |-> <<>>, body |-> "Internal Server Error"]

\* The handler returns its body.
Answer(route, body) == [route |-> route, status |-> 200, detail |-> <<>>, body |-> body]

\* agent = get_agent(): the first handler to call it constructs the gateway,
\* with the default base_url.
get_agent ==
    IF is_None(agent_instance_)
    THEN /\ agent_instance_' = [id |-> instances + 1, base_url |-> "http://localhost:8283"]
         /\ instances' = instances + 1
    ELSE UNCHANGED <<agent_instance_, instances>>

\* The runtime raises at agents.list() or agents.create(): the operation
\* has changed nothing.
RaisedAtLookup ==
    UNCHANGED <<tool_in, tool_out, now, prev_out, requests, workers, agents, agent_id_,
                tools_registered_, used, ret>>

\* The requests of this model all carry the first user_id; requests of
\* several users are the matter of SpecGateway.
ForClient == ret'.user_id = 1

\* The runtime raises at the operation's own call (messages.create,
\* memory.get, update_block, messages.list): get_or_create_agent has
\* returned by then.
RaisedAtCall == GetOrCreateAgent({{}}) /\ ForClient

\* POST /chat
chat ==
    /\ get_agent
    /\ \/ /\ SendMessage({{}}, {PlainResponse}) /\ ForClient
          /\ http_response' = Answer("POST /chat", "ChatResponse")
       \/ \E exc \in GatewayErrors :
              /\ RaisedAtLookup \/ RaisedAtCall
              /\ http_response' =
                     HandlerRaised("POST /chat", "Failed to process message", exc)

\* POST /profile/update
update_profile ==
    /\ get_agent
    /\ \/ /\ UpdateUserProfile({{}}) /\ ForClient
          /\ http_response' = Answer("POST /profile/update", "success")
       \/ \E exc \in GatewayErrors :
              /\ RaisedAtLookup \/ RaisedAtCall
              /\ http_response' =
                     HandlerRaised("POST /profile/update", "Failed to update profile", exc)

\* GET /profile/{user_id}: get_or_create_agent is the gateway's only call.
get_profile ==
    /\ get_agent
    /\ \/ /\ GetOrCreateAgent({{}}) /\ ForClient
          /\ http_response' = Answer("GET /profile/{user_id}", "Profile retrieved.")
       \/ \E exc \in GatewayErrors :
              /\ RaisedAtLookup
              /\ http_response' =
                     HandlerRaised("GET /profile/{user_id}", "Failed to get profile", exc)

\* POST /history.  MessageItem(**msg) raises ValidationError on a message
\* whose fields are not strings, after the gateway has returned.
get_history ==
    /\ get_agent
    /\ \/ /\ GetConversationHistory({{}}) /\ ForClient
          /\ \/ http_response' = Answer("POST /history", "ConversationHistoryResponse")
             \/ http_response' =
                    HandlerRaised("POST /history", "Failed to get history", "ValidationError")
       \/ \E exc \in GatewayErrors :
              /\ RaisedAtLookup \/ RaisedAtCall
              /\ http_response' =
                     HandlerRaised("POST /history", "Failed to get history", exc)

\* GET /health: no get_agent(), no gateway call.
health_check ==
    /\ http_response' = Answer("GET /health", "healthy")
    /\ UNCHANGED <<tool_in, tool_out, now, prev_out, requests, workers, agents, agent_id_,
                   tools_registered_, used, ret, agent_instance_, instances>>

NextRoutes ==
    \/ chat
    \/ update_profile
    \/ get_profile
    \/ get_history
    \/ health_check

SpecRoutes == InitGateway /\ [][NextRoutes]_vars

----------------------------------------------------------------------------
(* Claims about get_inflation_rate (SpecInflation) *)

Fetched == tool_in.result.observations

\* The fetched observation dated d; the series is monthly and starts at
\* month 1, so the observation at 0-based index i of the sorted series is
\* the one dated i + 1.
HasDate(d) == \E j \in 1..Len(Fetched) : Fetched[j].date = d
ObsDated(d) == Fetched[CHOOSE j \in 1..Len(Fetched) : Fetched[j].date = d]

ValidPair(d) ==
    /\ HasDate(d) /\ HasDate(d - YoYOffset)
    /\ ObsDated(d).value # "." /\ ObsDated(d - YoYOffset).value # "."
    /\ float(ObsDated(d - YoYOffset).value) # 0

\* C1: every rate get_inflation_rate computes is labelled with the date of
\* an observation S[i], i >= 12, of the date-sorted series and equals
\* (S[i].value - S[i-12].value) / S[i-12].value * 100; every rate line of the
\* text shows such a rate to two decimals; and a CPI of 100 at month 1 and
\* 104 at month 13 gives exactly 4, printed 4.00, at month 13.
Thm_C1_YoYFormula ==
    tool_out.kind = "report" =>
        /\ \A j \in 1..Len(tool_out.yoy_rates) :
              LET e == tool_out.yoy_rates[j]
              IN  /\ e.date > YoYOffset
                  /\ ValidPair(e.date)
                  /\ e.rate.num * float(ObsDated(e.date - YoYOffset).value)
                       = (float(ObsDated(e.date).value)
                            - float(ObsDated(e.date - YoYOffset).value)) * 100 * e.rate.den
        /\ \A j \in 1..Len(tool_out.lines) :
              LET l == tool_out.lines[j]
              IN  l.tag = "rate" =>
                    /\ ValidPair(l.a)
                    /\ LET cur == float(ObsDated(l.a).value)
                           ago == float(ObsDated(l.a - YoYOffset).value)
                           err == l.b * ago - 10000 * (cur - ago)
                       IN  2 * (IF err < 0 THEN -err ELSE err)
                             <= (IF ago < 0 THEN -ago ELSE ago)
        /\ (HasDate(13) /\ ObsDated(1).value = "100" /\ ObsDated(13).value = "104") =>
              /\ \E j \in 1..Len(tool_out.yoy_rates) :
                    /\ tool_out.yoy_rates[j].date = 13
                    /\ tool_out.yoy_rates[j].rate.num = 4 * tool_out.yoy_rates[j].rate.den
              /\ \A j \in 1..Len(tool_out.lines) :
                    (tool_out.lines[j].tag = "rate" /\ tool_out.lines[j].a = 13)
                        => tool_out.lines[j].b = 400

\* A 13-month series fetched newest first, 100 at month 1 and 104 at month
\* 13: one rate is computed and the text shows 4.00 for month 13.
Wit_C1_FourPercent ==
    /\ tool_out.kind = "report"
    /\ tool_in.months_back = 1
    /\ Len(Fetched) = 13 /\ Fetched[1].date = 13
    /\ ObsDated(1).value = "100" /\ ObsDated(13).value = "104"
    /\ Len(tool_out.yoy_rates) = 1
    /\ \E j \in 1..Len(tool_out.lines) :
          tool_out.lines[j] = Line("rate", "", 13, 400)

\* C2: with more than 12 observations fetched, no exception leaves
\* get_inflation_rate whatever pairs are missing or have a zero denominator,
\* and the number of rates computed is the number of dates d > 12 whose
\* observation and the one 12 months before are both present and non-missing
\* with a non-zero year-ago value.
Thm_C2_SkipInvalidPairs ==
    (tool_out.kind # "none" /\ tool_in.result.kind = "ok" /\ Len(Fetched) > YoYOffset) =>
        /\ tool_out.kind = "report"
        /\ Len(tool_out.yoy_rates)
             = Cardinality({d \in (YoYOffset + 1)..Len(Fetched) : ValidPair(d)})

\* A 14-month series with one pair missing a value and one pair with a zero
\* year-ago value: both are skipped, no rate is computed, a report returns.
Wit_C2_AllSkipped ==
    /\ tool_out.kind = "report"
    /\ Len(Fetched) = 14
    /\ ObsDated(1).value = "0" /\ ObsDated(13).value = "104"
    /\ ObsDated(2).value = "100" /\ ObsDated(14).value = "."
    /\ tool_out.yoy_rates = <<>>

\* C3: with a series fetched, get_inflation_rate reports insufficient data
\* exactly when the series has at most 12 observations, and then computes
\* and shows no rate.
Thm_C3_InsufficientData ==
    (tool_out.kind # "none" /\ tool_in.result.kind = "ok") =>
        /\ (tool_out.kind = "insufficient") <=> (Len(Fetched) <= YoYOffset)
        /\ tool_out.kind = "insufficient" =>
              /\ tool_out.yoy_rates = <<>>
              /\ \A j \in 1..Len(tool_out.lines) : tool_out.lines[j].tag # "rate"

\* Exactly 12 observations, all numeric: insufficient data.
Wit_C3_TwelveObservations ==
    /\ tool_out.kind = "insufficient"
    /\ tool_in.result.kind = "ok"
    /\ Len(Fetched) = YoYOffset
    /\ \A j \in 1..Len(Fetched) : Fetched[j].value = "100"

----------------------------------------------------------------------------
(* Claims about get_purchasing_power (SpecPurchasingPower) *)

\* The lines of a text that carry the given tag.
Tagged(out, tag) == SelectSeq(out.lines, LAMBDA l : l.tag = tag)

\* v is num/den (den > 0) to the nearest integer.
Nearest(v, num, den) ==
    LET err == v * den - num
    IN  2 * (IF err < 0 THEN -err ELSE err) <= den

Returned == tool_out.kind # "none"

\* C4 (as claimed): a call with a non-positive income is rejected with
\* InvalidInputError and prints no purchasing-power figure.
Cex_C4_RejectsNonPositive ==
    (Returned /\ tool_in.income <= 0) =>
        /\ tool_out.kind = "InvalidInputError"
        /\ Tagged(tool_out, "purchasing power as") = <<>>

\* C5: for every income and location the report prints, once, the figure
\* income * 100 / location_index (to the nearest dollar), location_index
\* being the table's index of the location, which the report also prints.
Thm_C5_NormalizedEquivalent ==
    Returned =>
        /\ tool_out.kind = "report"
        /\ Len(Tagged(tool_out, "purchasing power as")) = 1
        /\ Len(Tagged(tool_out, "Cost of Living Index")) = 1
        /\ LET idx == Tagged(tool_out, "Cost of Living Index")[1].a
           IN  /\ tool_in.location \in DOMAIN COST_OF_LIVING_INDEX
                    => idx = COST_OF_LIVING_INDEX[tool_in.location]
               /\ idx > 0
               /\ Nearest(Tagged(tool_out, "purchasing power as")[1].a,
                          tool_in.income * 100, idx)

\* $100,000 in New York (index 187) is printed as $53,476 at the baseline.
Wit_C5_NewYork ==
    /\ tool_in.income = 100000 /\ tool_in.location = "New York"
    /\ Tagged(tool_out, "Cost of Living Index") = <<Line("Cost of Living Index", "", 187, 0)>>
    /\ Tagged(tool_out, "purchasing power as") = <<Line("purchasing power as", "", 53476, 0)>>

\* The comparison section is there, for the location compare_to, with the
\* required income income * compare_index / location_index.
ComparisonShown(compare_index) ==
    /\ Tagged(tool_out, "Comparison to") = <<Line("Comparison to", tool_in.compare_to, 0, 0)>>
    /\ Len(Tagged(tool_out, "you would need")) = 1
    /\ Nearest(Tagged(tool_out, "you would need")[1].a,
               tool_in.income * compare_index, LocationIndex(tool_in.location))

NoComparisonShown ==
    /\ Tagged(tool_out, "Comparison to") = <<>>
    /\ Tagged(tool_out, "you would need") = <<>>

\* C6 (as claimed): whenever compare_to is supplied the comparison section
\* is printed with income * compare_index / location_index; when it is not
\* supplied there is none.  An empty compare_to is read as not supplied.
Cex_C6_ComparisonWheneverSupplied ==
    Returned =>
        IF tool_in.compare_to # None /\ tool_in.compare_to # ""
        THEN /\ Tagged(tool_out, "Comparison to") # <<>>
             /\ ComparisonShown(COST_OF_LIVING_INDEX[tool_in.compare_to])
        ELSE NoComparisonShown

\* C6 (amended): the comparison section is printed, with the required income
\* income * compare_index / location_index, exactly when compare_to names a
\* location of the cost-of-living table; when compare_to is omitted, empty
\* or not in the table there is no comparison section.
Thm_C6_ComparisonWhenInTable ==
    Returned =>
        IF tool_in.compare_to \in DOMAIN COST_OF_LIVING_INDEX
        THEN ComparisonShown(COST_OF_LIVING_INDEX[tool_in.compare_to])
        ELSE NoComparisonShown

\* $50,000 in Houston (96) compared to New York (187): $97,396 needed.
Wit_C6_HoustonToNewYork ==
    /\ tool_in.income = 50000 /\ tool_in.location = "Houston"
    /\ tool_in.compare_to = "New York"
    /\ Tagged(tool_out, "you would need") = <<Line("you would need", "", 97396, 0)>>

IsC7Call ==
    /\ Returned
    /\ tool_in.income = 100000
    /\ tool_in.location = "New York"
    /\ tool_in.compare_to = "US Average"

\* C7 (as claimed): income 100000, New York (187) compared to US Average
\* (100) prints a normalized equivalent of 53,476 and a required income in
\* the comparison location of 100,000.
Cex_C7_CompareIs100000 ==
    IsC7Call =>
        /\ Tagged(tool_out, "purchasing power as")[1].a = 53476
        /\ Tagged(tool_out, "you would need")[1].a = 100000

\* C7 (amended): income 100000, New York (187) compared to US Average (100)
\* prints a normalized equivalent of 53,476 and a required income in the
\* comparison location of 53,476 as well (100000 * 100 / 187), which is
\* 46,524 less than the income.
Thm_C7_Example ==
    IsC7Call =>
        /\ Tagged(tool_out, "purchasing power as")[1].a = 53476
        /\ Tagged(tool_out, "you would need")[1].a = 53476
        /\ Tagged(tool_out, "That's less than your current income")
             = <<Line("That's less than your current income", "", 46524, 0)>>

Wit_C7_Example ==
    /\ IsC7Call
    /\ Tagged(tool_out, "Cost of Living Index (compare)")
         = <<Line("Cost of Living Index (compare)", "", 100, 0)>>

TwoCalls == tool_out.kind = "report" /\ prev_out.kind = "report"

\* C8 (as claimed): two calls with the same arguments return the same text
\* whenever they are made.
Cex_C8_SameTextAlways == TwoCalls => tool_out.lines = prev_out.lines

\* C8 (amended): two calls with the same arguments return texts that differ
\* at most in the "Analysis date" line, and identical texts when both are
\* made on the same calendar day.
Thm_C8_SameTextSameDay ==
    TwoCalls =>
        /\ Len(tool_out.lines) = Len(prev_out.lines)
        /\ \A j \in 1..Len(tool_out.lines) :
              \/ tool_out.lines[j] = prev_out.lines[j]
              \/ /\ tool_out.lines[j].tag = "Analysis date"
                 /\ prev_out.lines[j].tag = "Analysis date"
        /\ (tool_out.at \div TicksPerDay = prev_out.at \div TicksPerDay)
              => tool_out.lines = prev_out.lines

\* Two calls at different times of the same day: the same text.
Wit_C8_SameDay ==
    /\ TwoCalls
    /\ tool_out.at # prev_out.at
    /\ tool_out.at \div TicksPerDay = prev_out.at \div TicksPerDay
    /\ tool_out.lines = prev_out.lines

----------------------------------------------------------------------------
(* Claims about the chat gateway (SpecGateway) *)

AgentsNamed(name) == {i \in 1..Len(agents) : agents[i].name = name}

\* C9 (as claimed): every agent a message has been submitted to has all
\* seven tools attached, whichever user it serves and whatever gateway
\* operations came before.  Refuted under SpecGatewayReliable, where no
\* registration fails, and so under SpecGateway too.
Cex_C9_AllToolsAttached ==
    \A i \in 1..Len(agents) :
        agents[i].messages > 0 => agents[i].tools = ToolSet

\* C10: every user_id used has exactly one agent, named
\* economic_advisor_<user_id>, and a user_id not used has none; every agent
\* carries the persona, human and user_profile blocks, persona and human as
\* created; an operation other than a profile update that creates the agent
\* leaves it with the default user_profile; and the agent_id of the last
\* operation is the id of its user's agent.
Thm_C10_OneAgentPerUser ==
    /\ \A u \in Users :
          Cardinality(AgentsNamed(agent_name(u))) = (IF u \in used THEN 1 ELSE 0)
    /\ \A i \in 1..Len(agents) :
          /\ \E u \in used : agents[i].name = agent_name(u)
          /\ Len(agents[i].memory_blocks) = 3
          /\ agents[i].memory_blocks[1] = InitialBlocks[1]
          /\ agents[i].memory_blocks[2] = InitialBlocks[2]
          /\ agents[i].memory_blocks[3].label = "user_profile"
    /\ ret.op # "none" =>
          /\ \E i \in AgentsNamed(agent_name(ret.user_id)) : agents[i].id = ret.agent_id
          /\ agent_id_ = ret.agent_id
          /\ (ret.created /\ ret.op # "update_user_profile") =>
                \E i \in 1..Len(agents) :
                    /\ agents[i].id = ret.agent_id
                    /\ agents[i].memory_blocks = InitialBlocks

\* Both users have been served, user 1 first and with two messages; a later
\* history request for user 1 reuses agent 1.
Wit_C10_Reused ==
    /\ used = Users
    /\ Len(agents) >= 2
    /\ agents[1].name = agent_name(1) /\ agents[1].messages = 2
    /\ ret.op = "get_conversation_history" /\ ret.user_id = 1
    /\ ret.agent_id = agents[1].id /\ ~ret.created

----------------------------------------------------------------------------
(* Claims about users' independence on the gateway (SpecGatewayReliable) *)

\* The agent the last operation was served by.
ServedAgent == agents[AgentAt(agents, ret.agent_id)]

\* The agent the same operation creates for the user on a gateway no other
\* user has been served by.
AgentAlone(user_id) ==
    LET g == get_or_create_agent(<<>>, FALSE, user_id, {})
    IN  g.agents[AgentAt(g.agents, g.agent_id)]

\* C11 (as claimed): an operation that creates its user's agent attaches the
\* same tools to it and gives it the same persona and human blocks as it
\* does when no operation for another user ran before it.  Refuted where no
\* registration fails.
Cex_C11_UsersIndependent ==
    (ret.op # "none" /\ ret.created) =>
        /\ ServedAgent.tools = AgentAlone(ret.user_id).tools
        /\ ServedAgent.memory_blocks[1] = AgentAlone(ret.user_id).memory_blocks[1]
        /\ ServedAgent.memory_blocks[2] = AgentAlone(ret.user_id).memory_blocks[2]

----------------------------------------------------------------------------
(* Claims about the metric formatters (SpecTools) *)

MetricTools == {"get_fred_data", "get_interest_rate", "get_unemployment_rate"}

\* A metric formatter was called, for a known rate type if get_interest_rate,
\* its request was answered with a series, and it has returned or raised.
MetricAnswered ==
    /\ tool_in.tool \in MetricTools
    /\ tool_in.tool = "get_interest_rate" => tool_in.rate_type \in rate_map
    /\ tool_in.response.kind = "json"
    /\ "observations" \in DOMAIN tool_in.response.json
    /\ Returned

\* The series the request was answered with, and its non-missing part.
Answered == tool_in.response.json.observations
NonMissing == SelectSeq(Answered, LAMBDA obs : obs.value # ".")

\* C12 (as claimed): a metric formatter whose fetched series has no
\* non-missing observation returns a "no data" message (and does not raise).
Cex_C12_NoDataWhenAllMissing ==
    (MetricAnswered /\ NonMissing = <<>>) => tool_out.kind = "no_data"

----------------------------------------------------------------------------
(* Claims about failed fetches (SpecTools) *)

\* The tool has sent its request: every tool of SpecTools does, but
\* get_interest_rate for an unknown rate type and get_financial_news
\* without a key.
RequestSent ==
    /\ Returned
    /\ tool_in.tool = "get_interest_rate" => tool_in.rate_type \in rate_map
    /\ tool_in.tool = "get_financial_news" => tool_in.api_key # ""

\* C13: when the network call of get_fred_data, get_inflation_rate,
\* get_interest_rate, get_unemployment_rate, get_exchange_rate or
\* get_financial_news (with a key) fails -- a timeout, a connection failure
\* or an error status -- the tool returns the text "Error: ..." and no
\* exception leaves it.
Thm_C13_FailedFetchIsErrorText ==
    (RequestSent /\ tool_in.response \in NetworkFailures) =>
        /\ tool_out.kind = "error"
        /\ tool_out.lines = <<Line("Error", "fetch", 0, 0)>>

\* The request of get_financial_news, a key being set, timed out and the
\* tool returned the error text.
Wit_C13_TimedOut ==
    /\ tool_in.tool = "get_financial_news"
    /\ tool_in.api_key # ""
    /\ tool_in.response = Raises("TimeoutException")
    /\ tool_out.kind = "error"

----------------------------------------------------------------------------
(* Claims about the qualitative assessment (SpecTools) *)

\* The lines of the output that carry a qualitative assessment.
Assessments == Tagged(tool_out, "Assessment") \o Tagged(tool_out, "Context")

\* The report assesses with str, once, or not at all.
AssessedAs(str) == Len(Assessments) = 1 /\ Assessments[1].str = str
NotAssessed == Assessments = <<>>

\* The most recent non-missing value of the series the request was answered
\* with.
Latest == float(NonMissing[1].value)

\* The most recent YoY rate get_inflation_rate computed.
LatestYoY == tool_out.yoy_rates[Len(tool_out.yoy_rates)].rate

\* C14: a report carries at most one assessment, the one of the first rule
\* its most recent value satisfies -- inflation: > 4, > 2.5, > 1.5,
\* otherwise; unemployment: < 4, < 5, < 7, otherwise; fed funds: > 5, > 2,
\* otherwise -- and none for a rate type other than fed_funds or when there
\* is no most recent value.
Thm_C14_OneAssessment ==
    /\ (tool_in.tool = "get_inflation_rate" /\ tool_out.kind = "report") =>
          IF tool_out.yoy_rates = <<>> THEN NotAssessed
          ELSE AssessedAs(
                 CASE RatGT(LatestYoY, 4, 1) -> "elevated"
                   [] ~RatGT(LatestYoY, 4, 1) /\ RatGT(LatestYoY, 5, 2) -> "moderately above"
                   [] ~RatGT(LatestYoY, 5, 2) /\ RatGT(LatestYoY, 3, 2) -> "near target"
                   [] ~RatGT(LatestYoY, 3, 2) -> "below target")
    /\ (tool_in.tool = "get_unemployment_rate" /\ tool_out.kind = "report") =>
          IF NonMissing = <<>> THEN NotAssessed
          ELSE AssessedAs(
                 CASE Latest < 4 -> "very tight"
                   [] 4 <= Latest /\ Latest < 5 -> "healthy"
                   [] 5 <= Latest /\ Latest < 7 -> "elevated"
                   [] 7 <= Latest -> "high")
    /\ (tool_in.tool = "get_interest_rate" /\ tool_out.kind = "report") =>
          IF tool_in.rate_type # "fed_funds" THEN NotAssessed
          ELSE AssessedAs(
                 CASE Latest > 5 -> "relatively high"
                   [] 2 < Latest /\ Latest <= 5 -> "moderate"
                   [] Latest <= 2 -> "low")
    /\ tool_out.kind \notin {"none", "report"} => NotAssessed

\* A fed funds rate of 6, above both thresholds, is assessed once, as
\* relatively high.
Wit_C14_FedFundsHigh ==
    /\ tool_in.tool = "get_interest_rate" /\ tool_in.rate_type = "fed_funds"
    /\ tool_out.kind = "report"
    /\ Latest = 6
    /\ Assessments = <<Line("Context", "relatively high", 0, 0)>>

----------------------------------------------------------------------------
(* Claims about the listed observations (SpecTools) *)

\* The observations the output lists, in its order.
Listed ==
    LET obs == Tagged(tool_out, "obs")
    IN  [j \in 1..Len(obs) |-> [date |-> obs[j].a, value |-> obs[j].str]]

\* The first k elements of a sequence, all of them if it has fewer.
Prefix(s, k) == SubSeq(s, 1, IF Len(s) < k THEN Len(s) ELSE k)

MostRecentFirst(s) == \A j \in 1..(Len(s) - 1) : s[j].date > s[j + 1].date

\* C15 (as claimed): the report of a metric formatter lists every
\* non-missing observation of the fetched series, in the order fetched, the
\* most recent first, and no missing one.
Cex_C15_ListsEveryObservation ==
    (MetricAnswered /\ tool_out.kind = "report") =>
        /\ Listed = NonMissing
        /\ MostRecentFirst(Listed)

\* C15 (amended): the report of get_fred_data and of get_unemployment_rate
\* lists every non-missing observation of the fetched series, the report of
\* get_interest_rate the twelve most recent non-missing ones; the list is
\* in the order fetched, the most recent first, and holds no missing
\* observation.
Thm_C15_ListsObservations ==
    (MetricAnswered /\ tool_out.kind = "report") =>
        /\ Listed = IF tool_in.tool = "get_interest_rate"
                    THEN Prefix(NonMissing, 12) ELSE NonMissing
        /\ MostRecentFirst(Listed)
        /\ \A j \in 1..Len(Listed) : Listed[j].value # "."

\* get_interest_rate fetched thirteen non-missing observations and lists
\* twelve.
Wit_C15_TwelveOfThirteen ==
    /\ MetricAnswered /\ tool_in.tool = "get_interest_rate"
    /\ tool_out.kind = "report"
    /\ Len(NonMissing) = 13
    /\ Len(Listed) = 12

----------------------------------------------------------------------------
(* Claims about the most recent value and its change (SpecTools) *)

\* The lines that state the most recent value, and those that state its
\* change from the observation before.
CurrentLines ==
    Tagged(tool_out, "Current rate") \o Tagged(tool_out, "Current unemployment rate")
DeltaLines == Tagged(tool_out, "Change from previous")

\* A report of get_interest_rate or get_unemployment_rate on a series with
\* a non-missing value.
RateReport ==
    /\ MetricAnswered
    /\ tool_in.tool \in {"get_interest_rate", "get_unemployment_rate"}
    /\ tool_out.kind = "report"
    /\ NonMissing # <<>>

\* C16 (as claimed): the report states the most recent value, in a line of
\* its own or at least as the first observation listed, and its change, the
\* most recent value minus the one before, exactly when the series has two
\* non-missing values or more.
Cex_C16_ValueAndDelta ==
    RateReport =>
        /\ Len(CurrentLines) = 1 \/ Listed[1] = NonMissing[1]
        /\ IF Len(NonMissing) >= 2
           THEN /\ Len(DeltaLines) = 1
                /\ DeltaLines[1].a = 100 * (Latest - float(NonMissing[2].value))
           ELSE DeltaLines = <<>>

----------------------------------------------------------------------------
(* Claims about the relay of send_message (SpecRelay) *)

IsKind(msg, kind) == "message_type" \in DOMAIN msg /\ msg.message_type = kind

\* The assistant messages and the tool call messages of the runtime's
\* response, in its order.
AssistantMessages == SelectSeq(tool_in.messages, LAMBDA msg : IsKind(msg, "assistant_message"))
ToolCallMessages == SelectSeq(tool_in.messages, LAMBDA msg : IsKind(msg, "tool_call_message"))

\* The contents of the first k assistant messages with a blank line between
\* one and the next.
RECURSIVE JoinedContents(_)
JoinedContents(k) ==
    IF k = 0 THEN <<>>
    ELSE IF k = 1 THEN AssistantMessages[1].content
    ELSE JoinedContents(k - 1) \o <<"\n\n">> \o AssistantMessages[k].content

\* C17: the response send_message returns is the contents of the runtime's
\* assistant messages, in order, joined by blank lines, or the fallback
\* text when there is no assistant message; its tool_calls are the name and
\* arguments of each tool call message, in order; other messages add
\* nothing.
Thm_C17_Relay ==
    ret.op = "send_message" =>
        /\ ret.response = IF AssistantMessages = <<>>
                          THEN <<"I couldn't generate a response.">>
                          ELSE JoinedContents(Len(AssistantMessages))
        /\ ret.tool_calls =
              [j \in 1..Len(ToolCallMessages) |->
                  [name |-> ToolCallMessages[j].tool_call.name,
                   arguments |-> ToolCallMessages[j].tool_call.arguments]]

\* The runtime answered with a reasoning message, a tool call and an
\* assistant message with an empty text: the response is the empty text, not
\* the fallback, and there is one tool call.
Wit_C17_EmptyTextRelayed ==
    /\ ret.op = "send_message"
    /\ Len(tool_in.messages) = 3
    /\ IsKind(tool_in.messages[1], "reasoning_message")
    /\ IsKind(tool_in.messages[2], "tool_call_message")
    /\ IsKind(tool_in.messages[3], "assistant_message")
    /\ ret.response = <<>>
    /\ ret.tool_calls = <<[name |-> "get_inflation_rate", arguments |-> "{\"months_back\": 12}"]>>

----------------------------------------------------------------------------
(* Claims about the process-wide gateway (SpecSingleton) *)

\* C18: the first get_agent call constructs the gateway, with the base_url
\* it passes; every get_agent call returns the instance held, whatever its
\* base_url; and once an instance is held no step replaces or clears it:
\* one gateway is constructed in all.
Thm_C18_Singleton ==
    [][ /\ agent_instance_ # NoInstance => agent_instance_' = agent_instance_
        /\ (agent_instance_ = NoInstance /\ agent_instance_' # NoInstance) =>
              /\ ret'.op = "get_agent"
              /\ agent_instance_'.base_url = ret'.base_url
        /\ ret'.op = "get_agent" =>
              /\ agent_instance_' # NoInstance
              /\ ret'.instance = agent_instance_'
        /\ instances' <= 1 ]_vars

\* The gateway was constructed with one base_url and has served a user; a
\* later get_agent call with another base_url returned the same instance,
\* its state kept.
Wit_C18_OtherBaseUrl ==
    /\ ret.op = "get_agent"
    /\ ret.base_url # agent_instance_.base_url
    /\ ret.instance = agent_instance_
    /\ instances = 1
    /\ tools_registered_
    /\ agents # <<>>

----------------------------------------------------------------------------
(* Claims about get_financial_news without a key (SpecTools) *)

\* The titles that begin with the "[Demo]" label.
DemoTitles ==
    {"[Demo] Economic outlook remains uncertain amid {query} concerns",
     "[Demo] Markets react to latest {query} developments"}

\* C19: called with no NEWS_API_KEY set, get_financial_news sends no
\* request and, whatever a request would have met, returns a report: the
\* header for its topic, articles that all carry the "[Demo]" label, the
\* closing note; it neither raises nor returns "Error: ...".
Thm_C19_DemoNewsWithoutKey ==
    (tool_in.tool = "get_financial_news" /\ tool_in.api_key = "" /\ Returned) =>
        /\ requests = 0
        /\ tool_out.kind = "report"
        /\ Tagged(tool_out, "Error") = <<>>
        /\ Tagged(tool_out, "Financial News") = <<Line("Financial News", tool_in.topic, 0, 0)>>
        /\ Tagged(tool_out, "title") # <<>>
        /\ \A j \in 1..Len(Tagged(tool_out, "title")) :
              Tagged(tool_out, "title")[j].str \in DemoTitles
        /\ Len(Tagged(tool_out, "Note")) = 1

\* No key is set and the network is down; the tool, asked for no article at
\* all, returned the placeholder report without sending a request.
Wit_C19_NoKeyNetworkDown ==
    /\ tool_in.tool = "get_financial_news" /\ tool_in.api_key = ""
    /\ tool_in.response = Raises("ConnectError")
    /\ tool_in.max_articles = 0
    /\ tool_out.kind = "report"
    /\ Len(Tagged(tool_out, "title")) = 2
    /\ requests = 0

----------------------------------------------------------------------------
(* Claims about get_exchange_rate and unknown currency codes (SpecTools) *)

\* The request for the rates was answered, and the target, in upper case,
\* is not among the rates of the answer.
TargetUnknown ==
    /\ tool_in.response.kind = "json"
    /\ \/ "rates" \notin DOMAIN tool_in.response.json
       \/ upper(tool_in.to_currency) \notin DOMAIN tool_in.response.json.rates

\* The provider has no rates for the source: the request for them fails.
SourceUnknown ==
    /\ upper(tool_in.from_currency) \notin KnownBases
    /\ tool_in.response \in NetworkFailures

\* C20: get_exchange_rate returns the text "Currency code '<target>' not
\* found ..." for a target that is not among the fetched rates, and the text
\* "Error: ..." when the lookup for an unknown source fails; in neither case
\* does an exception leave it.
Thm_C20_UnknownCurrency ==
    (tool_in.tool = "get_exchange_rate" /\ Returned) =>
        /\ TargetUnknown =>
              /\ tool_out.kind = "not_found"
              /\ tool_out.lines =
                    <<Line("Currency code not found", upper(tool_in.to_currency), 0, 0)>>
        /\ SourceUnknown =>
              /\ tool_out.kind = "error"
              /\ tool_out.lines = <<Line("Error", "fetch", 0, 0)>>

\* USD to ZZZ: the rates for USD arrived, with EUR among them and without
\* ZZZ, and the tool returned the not-found text.
Wit_C20_UnknownTarget ==
    /\ tool_in.tool = "get_exchange_rate"
    /\ tool_in.from_currency = "USD" /\ tool_in.to_currency = "ZZZ"
    /\ tool_in.response.kind = "json"
    /\ "rates" \in DOMAIN tool_in.response.json
    /\ "EUR" \in DOMAIN tool_in.response.json.rates
    /\ tool_out.kind = "not_found"

----------------------------------------------------------------------------
(* Claims about the number of fetches (SpecFetches) *)

\* C21: a tool that has returned, or raised, has sent at most one request,
\* whether the request failed or was answered; get_purchasing_power, called
\* any number of times, and get_interest_rate for a rate type it does not
\* know have sent none.
Thm_C21_AtMostOneFetch ==
    Returned =>
        /\ requests <= 1
        /\ tool_in.tool = "get_purchasing_power" => requests = 0
        /\ (tool_in.tool = "get_interest_rate" /\ tool_in.rate_type \notin rate_map) =>
              requests = 0
        /\ (tool_in.tool \in {"get_fred_data", "get_inflation_rate", "get_unemployment_rate",
                              "get_exchange_rate"}) => requests = 1

\* The request of get_exchange_rate timed out; the tool returned the error
\* text after that one request.
Wit_C21_OneFailedFetch ==
    /\ tool_in.tool = "get_exchange_rate"
    /\ tool_in.response = Raises("TimeoutException")
    /\ tool_out.kind = "error"
    /\ requests = 1

----------------------------------------------------------------------------
(* Claims about the rate lines of get_inflation_rate (SpecInflation) *)

\* The YoY rate lines of the report, in its order.
RateLines == Tagged(tool_out, "rate")

\* How many of the computed rates months_back allows to show.
Allowed ==
    IF tool_in.months_back < Len(tool_out.yoy_rates)
    THEN tool_in.months_back ELSE Len(tool_out.yoy_rates)

\* C22 (as claimed): the report of get_inflation_rate(months_back) shows at
\* most months_back rate lines, those of the most recent rates computed,
\* the most recent first, for months_back = 0 too.
Cex_C22_AtMostMonthsBack ==
    tool_out.kind = "report" =>
        /\ Len(RateLines) = Allowed
        /\ \A j \in 1..Len(RateLines) :
              RateLines[j].a = tool_out.yoy_rates[Len(tool_out.yoy_rates) + 1 - j].date

----------------------------------------------------------------------------
(* Claims about update_user_profile (SpecGateway) *)

\* The default a profile field carries when an update does not supply it.
UpdateDefault(field) ==
    CASE field = "risk_tolerance" -> "Moderate"
      [] field = "preferences" -> "Standard explanation depth"
      [] OTHER -> "Not specified"

\* The user_profile block of the agent the last operation was served by.
ServedProfile == ServedAgent.memory_blocks[3].value

\* C23: after update_user_profile the user's user_profile block carries,
\* for each of the six fields, the value the call supplied, or the field's
\* default when the call did not supply it, whatever the block held before;
\* and no agent's persona or human block ever differs from the one it was
\* created with.
Thm_C23_ProfileIsLastUpdate ==
    /\ ret.op = "update_user_profile" =>
          /\ ServedAgent.name = agent_name(ret.user_id)
          /\ ServedAgent.memory_blocks[3].label = "user_profile"
          /\ \A j \in 1..Len(ProfileFields) :
                ServedProfile[ProfileFields[j]] =
                    IF ProfileFields[j] \in DOMAIN ret.profile_data
                    THEN ret.profile_data[ProfileFields[j]]
                    ELSE UpdateDefault(ProfileFields[j])
    /\ \A i \in 1..Len(agents) :
          /\ agents[i].memory_blocks[1] = [label |-> "persona", value |-> "MEMORY_PERSONA"]
          /\ agents[i].memory_blocks[2] =
                [label |-> "human", value |-> "DEFAULT_HUMAN_DESCRIPTION"]

\* An agent that existed before was updated with a risk tolerance and
\* savings only: its income range is the default, and the other user's
\* agent holds the income range an update gave it.
Wit_C23_SecondUpdate ==
    /\ ret.op = "update_user_profile" /\ ~ret.created
    /\ DOMAIN ret.profile_data = {"risk_tolerance", "savings"}
    /\ ServedProfile.risk_tolerance = "Aggressive"
    /\ ServedProfile.income_range = "Not specified"
    /\ \E i \in 1..Len(agents) :
          /\ agents[i].id # ret.agent_id
          /\ agents[i].memory_blocks[3].value.income_range = "50k-75k"

(***************************************************************************)
(* Claims about interleaved requests (SpecWorkers)                         *)
(***************************************************************************)

\* C24: even when two requests for the same previously unseen user_id
\* interleave, both listing the agents before either creates, the runtime's
\* store never holds more than one agent named economic_advisor_<user_id>.
Cex_C24_AtMostOneAgentPerName ==
    \A user_id \in Users : Cardinality(FindAgent(agents, agent_name(user_id))) <= 1

(***************************************************************************)
(* Claims about the divisor of get_purchasing_power (SpecPurchasingPower)  *)
(***************************************************************************)

\* The index the report prints for the location: the divisor of every
\* division of the function.
PrintedIndex == Tagged(tool_out, "Cost of Living Index")

\* C25: get_purchasing_power never divides by zero.  Every call returns the
\* report (no ZeroDivisionError leaves it); the divisor location_index is
\* positive for every location, 100 for one the table does not hold, every
\* index of the table being positive; and a compare_to the table does not
\* hold is ignored: the report comes without a comparison section.
Thm_C25_NeverDividesByZero ==
    /\ \A l \in DOMAIN COST_OF_LIVING_INDEX : COST_OF_LIVING_INDEX[l] > 0
    /\ Returned =>
          /\ tool_out.kind = "report"
          /\ Len(PrintedIndex) = 1
          /\ PrintedIndex[1].a > 0
          /\ tool_in.location \notin DOMAIN COST_OF_LIVING_INDEX => PrintedIndex[1].a = 100
          /\ tool_in.compare_to \notin DOMAIN COST_OF_LIVING_INDEX =>
                /\ Tagged(tool_out, "Comparison to") = <<>>
                /\ Tagged(tool_out, "Cost of Living Index (compare)") = <<>>

\* $50,000 in Atlantis compared to Atlantis, neither in the table: index 100,
\* a normalized equivalent of $50,000, no comparison, the table of
\* equivalents printed.
Wit_C25_UnknownLocationAndCompareTo ==
    /\ tool_in.income = 50000
    /\ tool_in.location = "Atlantis"
    /\ tool_in.compare_to = "Atlantis"
    /\ tool_out.kind = "report"
    /\ PrintedIndex = <<Line("Cost of Living Index", "", 100, 0)>>
    /\ Tagged(tool_out, "purchasing power as") = <<Line("purchasing power as", "", 50000, 0)>>
    /\ Len(Tagged(tool_out, "equivalent in")) = Len(sample_locations)

(***************************************************************************)
(* Claims about the route handlers (SpecRoutes)                            *)
(***************************************************************************)

\* The text each handler's except clause puts before str(e).
FailurePrefix(route) ==
    CASE route = "POST /chat" -> "Failed to process message"
      [] route = "POST /profile/update" -> "Failed to update profile"
      [] route = "GET /profile/{user_id}" -> "Failed to get profile"
      [] route = "POST /history" -> "Failed to get history"
      [] OTHER -> ""

\* The gateway operation a handler answers 200 after.
OperationOf(route) ==
    CASE route = "POST /chat" -> "send_message"
      [] route = "POST /profile/update" -> "update_user_profile"
      [] route = "GET /profile/{user_id}" -> "get_or_create_agent"
      [] route = "POST /history" -> "get_conversation_history"
      [] OTHER -> "none"

\* The parts of the state the gateway owns or a gateway call changes.
gateway_vars == <<agents, agent_id_, tools_registered_, used, ret, agent_instance_, instances>>

\* C26: no gateway error escapes a request handler.  Every response is a 200
\* or a 500; a 500 is the handler's HTTPException, with a detail made of the
\* handler's message and the text of the exception the gateway raised, never
\* the server's bare answer to an unhandled exception; POST /chat,
\* POST /profile/update, GET /profile/{user_id} and POST /history answer 200
\* only when their gateway operation has returned; GET /health always
\* answers 200 "healthy" and its step leaves the gateway untouched.
Thm_C26_GatewayErrorsBecome500 ==
    /\ [](http_response.route # "none" =>
            /\ http_response.status \in {200, 500}
            /\ http_response.status = 500 =>
                  /\ http_response.route # "GET /health"
                  /\ Len(http_response.detail) = 2
                  /\ http_response.detail[1] = FailurePrefix(http_response.route)
                  /\ http_response.detail[2] \in GatewayErrors \cup {"ValidationError"}
            /\ http_response.route = "GET /health" =>
                  /\ http_response.status = 200
                  /\ http_response.body = "healthy")
    /\ [][/\ (http_response'.route # "GET /health" /\ http_response'.status = 200)
                => ret'.op = OperationOf(http_response'.route)
          /\ http_response'.route = "GET /health" => UNCHANGED gateway_vars]_vars

\* POST /chat for a new user: the agent is created, then messages.create
\* cannot reach the runtime; the handler answers 500 with its detail.
Wit_C26_ChatConnectError ==
    /\ http_response = [route |-> "POST /chat", status |-> 500,
                        detail |-> <<"Failed to process message", "ConnectError">>,
                        body |-> ""]
    /\ ret.op = "get_or_create_agent"
    /\ ret.created
    /\ Len(agents) = 1
    /\ agents[1].messages = 0

====
